---- MODULE Spec2Model ----
(***************************************************************************)
(* A model of the core of SuperMechs_bot:                                  *)
(*   - ArenaBuffs (src/SuperMechs/core.py): the buff curves                *)
(*   - abbreviate_names / get_matching_items (src/SuperMechs/core.py)      *)
(*   - Selector / Operator / AttributeProxy / Manager (src/ui/orm_views.py)*)
(* A Python call is one action; it leaves its outcome (the value returned  *)
(* or the exception raised) in the component's result variable.            *)
(***************************************************************************)
EXTENDS Integers, Sequences, FiniteSets, TLC

VARIABLES
    levels,      \* ArenaBuffs.levels: a dict stat -> level
    buffCall,    \* the ArenaBuffs call in progress
    buffRet,     \* its outcome
    instances,   \* the ArenaBuffs objects made by maxed(): the levels of each, in order
    maxedAttr,   \* ArenaBuffs.maxed: 0 the classmethod, k the lambda returning instance k
    MAX_BUFFS,   \* the global of core.py: 0 while unbound, k once bound to instance k
    items,       \* Manager.items: the entities of a Manager, in order
    queryCall,   \* the Manager call in progress, with the predicate passed
    queryRet,    \* its outcome
    proxy,       \* an AttributeProxy: type, attribute, method, args, kwargs
    proxyCall,   \* the last operation on the proxy
    proxyRet,    \* its outcome
    corpus,      \* the names of the corpus (the keys of the mapping), in order
    index,       \* the index of abbreviations: a dict key -> set of names
    matchCall,   \* the get_matching_items call in progress
    matchRet,    \* its outcome
    run,         \* Listener.run
    timed_out,   \* Listener.timed_out
    wait_task,   \* Listener.wait_task: whether the Event is set
    callbacks,   \* Listener._callbacks: the custom ids that have a callback
    listen,      \* the coroutine listen(): where it is, and the interaction it holds
    waiters      \* the coroutines wait(): idle, waiting, or the value returned

buffVars == <<levels, buffCall, buffRet, instances, maxedAttr, MAX_BUFFS>>
queryVars == <<items, queryCall, queryRet>>
proxyVars == <<proxy, proxyCall, proxyRet>>
matchVars == <<corpus, index, matchCall, matchRet>>
listenerVars == <<run, timed_out, wait_task, callbacks, listen, waiters>>
vars ==
    <<levels, buffCall, buffRet, instances, maxedAttr, MAX_BUFFS, items, queryCall, queryRet, proxy, proxyCall, proxyRet,
      corpus, index, matchCall, matchRet, run, timed_out, wait_task, callbacks, listen,
      waiters>>

(***************************************************************************)
(* Python outcomes                                                         *)
(***************************************************************************)
Return(v) == [exc |-> "None", val |-> v]
Raise(e) == [exc |-> e]
Returned(r) == r.exc = "None"

Min(a, b) == IF a <= b THEN a ELSE b
Max(a, b) == IF a >= b THEN a ELSE b
Abs(n) == IF n < 0 THEN -n ELSE n

\* tuple[i] with Python's index rules: a negative index counts from the end
PyIndex(tuple, i) ==
    IF 0 <= i /\ i < Len(tuple) THEN Return(tuple[i + 1])
    ELSE IF -Len(tuple) <= i /\ i < 0 THEN Return(tuple[Len(tuple) + i + 1])
    ELSE Raise("IndexError")

(***************************************************************************)
(* Natural numbers of any size, as little-endian sequences of limbs below  *)
(* 2^15 (a product of two limbs stays an integer that can be computed      *)
(* with).                                                                  *)
(***************************************************************************)
Limb == 2 ^ 15

RECURSIVE NatBig(_)
NatBig(n) == IF n = 0 THEN <<>> ELSE <<n % Limb>> \o NatBig(n \div Limb)

RECURSIVE BigNat(_)
BigNat(b) == IF b = <<>> THEN 0 ELSE Head(b) + Limb * BigNat(Tail(b))

LimbAt(b, i) == IF 1 <= i /\ i <= Len(b) THEN b[i] ELSE 0

RECURSIVE Trim(_)
Trim(b) ==
    IF b = <<>> THEN b
    ELSE IF b[Len(b)] # 0 THEN b
    ELSE Trim(SubSeq(b, 1, Len(b) - 1))

RECURSIVE SmallBitLen(_)
SmallBitLen(n) == IF n = 0 THEN 0 ELSE 1 + SmallBitLen(n \div 2)

\* the number of significant bits of b
BitLen(b) ==
    LET t == Trim(b)
    IN  IF t = <<>> THEN 0 ELSE 15 * (Len(t) - 1) + SmallBitLen(t[Len(t)])

AddBig(a, b) ==
    LET RECURSIVE AddFrom(_, _)
        AddFrom(i, carry) ==
            IF i > Len(a) /\ i > Len(b)
            THEN IF carry = 0 THEN <<>> ELSE <<carry>>
            ELSE LET s == LimbAt(a, i) + LimbAt(b, i) + carry
                 IN  <<s % Limb>> \o AddFrom(i + 1, s \div Limb)
    IN  AddFrom(1, 0)

\* a - b, for a >= b
SubBig(a, b) ==
    LET RECURSIVE SubFrom(_, _)
        SubFrom(i, borrow) ==
            IF i > Len(a) THEN <<>>
            ELSE LET d == LimbAt(a, i) - LimbAt(b, i) - borrow
                 IN  <<d % Limb>> \o SubFrom(i + 1, IF d < 0 THEN 1 ELSE 0)
    IN  SubFrom(1, 0)

\* b * n, for a natural n below 2^15
MulSmall(b, n) ==
    LET RECURSIVE MulFrom(_, _)
        MulFrom(i, carry) ==
            IF i > Len(b)
            THEN IF carry = 0 THEN <<>> ELSE <<carry>>
            ELSE LET p == b[i] * n + carry
                 IN  <<p % Limb>> \o MulFrom(i + 1, p \div Limb)
    IN  MulFrom(1, 0)

\* quotient and remainder of b by a divisor 0 < d < 2^15
DivSmall(b, d) ==
    LET RECURSIVE DivFrom(_, _)
        DivFrom(i, rem) ==
            IF i = 0 THEN [q |-> <<>>, r |-> rem]
            ELSE LET r2 == Limb * rem + b[i]
                     rest == DivFrom(i - 1, r2 % d)
                 IN  [q |-> Append(rest.q, r2 \div d), r |-> rest.r]
    IN  DivFrom(Len(b), 0)

\* b * 2^n
ShiftLeft(b, n) ==
    [i \in 1..(n \div 15) |-> 0] \o MulSmall(b, 2 ^ (n % 15))

\* b / 2^s rounded to the nearest natural, a tie to the even one; sticky
\* tells that the exact value lies strictly above b
RoundBig(b, s, sticky) ==
    LET \* the integer part of b / 2^n
        ShiftRight(c, n) == DivSmall(SubSeq(c, (n \div 15) + 1, Len(c)), 2 ^ (n % 15)).q
        \* whether one of the n lowest bits of b is set
        LowBits(c, n) ==
            \/ \E i \in 1..(n \div 15) : LimbAt(c, i) # 0
            \/ LimbAt(c, (n \div 15) + 1) % (2 ^ (n % 15)) # 0
        \* bit i of c, the lowest bit being bit 1
        BitAt(c, i) ==
            IF i < 1 THEN 0
            ELSE (LimbAt(c, ((i - 1) \div 15) + 1) \div (2 ^ ((i - 1) % 15))) % 2
        q == ShiftRight(b, s)
        up == BitAt(b, s) = 1 /\ (sticky \/ LowBits(b, s - 1) \/ BitAt(q, 1) = 1)
    IN  IF s <= 0 THEN b ELSE IF up THEN AddBig(q, <<1>>) ELSE q

(***************************************************************************)
(* Python floats (IEEE 754 binary64): neg, m, e stand for (-1)^neg * m *   *)
(* 2^e with m of at most 53 significant bits; every operation rounds its   *)
(* exact result to the nearest such number, a tie to the even one.         *)
(***************************************************************************)
Fl(neg, b, e, sticky) ==
    LET len == BitLen(b)
    IN  IF len <= 53
        THEN [neg |-> neg, m |-> Trim(b), e |-> e]
        ELSE [neg |-> neg, m |-> Trim(RoundBig(b, len - 53, sticky)), e |-> e + len - 53]

\* int * float, for |v| below 2^15
PyMulIntFloat(v, x) == Fl((v < 0) # x.neg, MulSmall(x.m, Abs(v)), x.e, FALSE)

\* float * float; a product beyond the largest float is inf
PyMulFloat(x, y) ==
    LET \* a * b of naturals of any size
        MulBig(a, b) ==
            LET RECURSIVE MulFrom(_)
                MulFrom(i) ==
                    IF i > Len(b) THEN <<>>
                    ELSE AddBig(MulSmall(a, b[i]), <<0>> \o MulFrom(i + 1))
            IN  MulFrom(1)
        z == Fl(x.neg # y.neg, MulBig(x.m, y.m), x.e + y.e, FALSE)
    IN  IF BitLen(z.m) + z.e > 1024 THEN [inf |-> TRUE] ELSE z

\* round(float): the nearest int, a tie to the even one
PyRound(x) ==
    LET n == IF x.e >= 0 THEN BigNat(ShiftLeft(x.m, x.e))
             ELSE BigNat(RoundBig(x.m, -x.e, FALSE))
    IN  IF x.neg THEN -n ELSE n

(***************************************************************************)
(* Python strings are TLA+ strings; s[i] is the one-character string       *)
(* CharAt(s, i).                                                           *)
(***************************************************************************)
CharAt(s, i) == SubSeq(s, i, i)

RECURSIVE NatStr(_)
NatStr(n) ==
    IF n < 10 THEN CharAt("0123456789", n + 1)
    ELSE NatStr(n \div 10) \o CharAt("0123456789", (n % 10) + 1)

\* f"{n}"
IntStr(n) == IF n < 0 THEN "-" \o NatStr(-n) ELSE NatStr(n)

\* f"{n:+}"

(***************************************************************************)
(* ArenaBuffs                                                              *)
(***************************************************************************)
BASE_PERCENT == <<0, 1, 3, 5, 7, 9, 11, 13, 15, 17, 20>>
HP_INCREASES == <<0, 10, 30, 60, 90, 120, 150, 180, 220, 260, 300, 350>>
STATS_REFERENCE ==
    <<"eneCap", "eneReg", "eneDmg", "heaCap", "heaCol", "heaDmg", "phyDmg",
      "expDmg", "eleDmg", "phyRes", "expRes", "eleRes", "health", "backfire">>

Range(s) == {s[i] : i \in DOMAIN s}

\* dict.fromkeys(keys, value)
FromKeys(keys, value) == [k \in Range(keys) |-> value]

\* get_percent without the doubling of the resistances
get_percent_undoubled(stat_name, level) ==
    LET base == PyIndex(BASE_PERCENT, level)
    IN  IF stat_name = "health" THEN Raise("TypeError")
        ELSE IF ~Returned(base) THEN base
        ELSE IF stat_name = "backfire" THEN Return(-base.val)
        ELSE Return(base.val)

\* get_percent without the negation for backfire
get_percent_unsigned(stat_name, level) ==
    LET base == PyIndex(BASE_PERCENT, level)
    IN  IF stat_name = "health" THEN Raise("TypeError")
        ELSE IF ~Returned(base) THEN base
        ELSE IF stat_name \in {"expRes", "eleRes", "phyRes"} THEN Return(base.val * 2)
        ELSE Return(base.val)

get_percent(stat_name, level) ==
    LET base == PyIndex(BASE_PERCENT, level)
    IN  IF stat_name = "health" THEN Raise("TypeError")
        ELSE IF ~Returned(base) THEN base
        ELSE IF stat_name = "backfire" THEN Return(-base.val)
        ELSE IF stat_name \in {"expRes", "eleRes", "phyRes"} THEN Return(base.val * 2)
        ELSE Return(base.val)

\* buff_as_str with the format spec of the percent left out: f"{...}%"
buff_as_str_plain(stat_name, level) ==
    IF stat_name = "health"
    THEN LET hp == PyIndex(HP_INCREASES, level)
         IN  IF Returned(hp) THEN Return("+" \o IntStr(hp.val)) ELSE hp
    ELSE LET pct == get_percent(stat_name, level)
         IN  IF Returned(pct) THEN Return(IntStr(pct.val) \o "%") ELSE pct

buff_as_str(stat_name, level) ==
    IF stat_name = "health"
    THEN LET hp == PyIndex(HP_INCREASES, level)
         IN  IF Returned(hp) THEN Return("+" \o IntStr(hp.val)) ELSE hp
    ELSE LET pct == get_percent(stat_name, level)
             \* f"{n:+}"
             IntStrSigned(n) == IF n < 0 THEN "-" \o NatStr(-n) ELSE "+" \o NatStr(n)
         IN  IF Returned(pct) THEN Return(IntStrSigned(pct.val) \o "%") ELSE pct

\* int / int (true division), for |n| and d > 0 below 2^7
PyTrueDiv(n, d) ==
    LET qr == DivSmall(ShiftLeft(NatBig(Abs(n)), 61), d)
    IN  Fl(n < 0, qr.q, -61, qr.r # 0)

\* 1 + x, for a float |x| < 1
PyOnePlus(x) ==
    LET one == ShiftLeft(<<1>>, -x.e)
    IN  IF x.m = <<>> THEN [neg |-> FALSE, m |-> <<1>>, e |-> 0]
        ELSE Fl(FALSE, IF x.neg THEN SubBig(one, x.m) ELSE AddBig(one, x.m), x.e, FALSE)

\* 1 + percent / 100, in floats, for the percents get_percent returns
OnePlusPercent ==
    [p \in UNION {{-BASE_PERCENT[i], BASE_PERCENT[i], BASE_PERCENT[i] * 2} :
                     i \in DOMAIN BASE_PERCENT}
        |-> PyOnePlus(PyTrueDiv(p, 100))]

\* total_buff with health looked up in the percent curve
total_buff_health_percent(lv, stat, value) ==
    IF stat \notin DOMAIN lv THEN Return(value)
    ELSE LET level == lv[stat]
             hp == PyIndex(BASE_PERCENT, level)
             pct == get_percent(stat, level)
         IN  IF stat = "health"
             THEN IF Returned(hp) THEN Return(value + hp.val) ELSE hp
             ELSE IF ~Returned(pct) THEN pct
             ELSE Return(PyRound(PyMulIntFloat(value, OnePlusPercent[pct.val])))

\* total_buff without the test for a stat that has no level
total_buff_unguarded(lv, stat, value) ==
    IF stat \notin DOMAIN lv THEN Raise("KeyError")
    ELSE LET level == lv[stat]
             hp == PyIndex(HP_INCREASES, level)
             pct == get_percent(stat, level)
         IN  IF stat = "health"
             THEN IF Returned(hp) THEN Return(value + hp.val) ELSE hp
             ELSE IF ~Returned(pct) THEN pct
             ELSE Return(PyRound(PyMulIntFloat(value, OnePlusPercent[pct.val])))

total_buff(lv, stat, value) ==
    IF stat \notin DOMAIN lv THEN Return(value)
    ELSE LET level == lv[stat]
             hp == PyIndex(HP_INCREASES, level)
             pct == get_percent(stat, level)
         IN  IF stat = "health"
             THEN IF Returned(hp) THEN Return(value + hp.val) ELSE hp
             ELSE IF ~Returned(pct) THEN pct
             ELSE Return(PyRound(PyMulIntFloat(value, OnePlusPercent[pct.val])))

\* total_buff for an int too wide for the integers computed with above,
\* given as a sign and a magnitude: neg, mag stand for (-1)^neg * mag
total_buff_wide(lv, stat, value) ==
    IF stat \notin DOMAIN lv THEN Return(value)
    ELSE LET \* float(int), as int * float converts its left operand: the nearest
             \* float, or OverflowError for an int beyond the largest float
             PyFloat(w) ==
                 LET x == Fl(w.neg, w.mag, 0, FALSE)
                 IN  IF BitLen(x.m) + x.e > 1024 THEN Raise("OverflowError") ELSE Return(x)
             \* round(float) for a float of any magnitude: the nearest int, a tie
             \* to the even one; OverflowError for inf
             PyRoundWide(x) ==
                 IF "inf" \in DOMAIN x THEN Raise("OverflowError")
                 ELSE Return([neg |-> x.neg,
                              mag |-> Trim(IF x.e >= 0 THEN ShiftLeft(x.m, x.e)
                                           ELSE RoundBig(x.m, -x.e, FALSE))])
             level == lv[stat]
             hp == PyIndex(HP_INCREASES, level)
             pct == get_percent(stat, level)
             float == PyFloat(value)
         IN  IF stat = "health"
             THEN IF ~Returned(hp) THEN hp
                  ELSE Return([neg |-> value.neg,
                               mag |-> IF value.neg THEN Trim(SubBig(value.mag, NatBig(hp.val)))
                                       ELSE AddBig(value.mag, NatBig(hp.val))])
             ELSE IF ~Returned(pct) THEN pct
             ELSE IF ~Returned(float) THEN float
             ELSE PyRoundWide(PyMulFloat(float.val, OnePlusPercent[pct.val]))

\* cls(levels) of maxed(): every stat at the last index of its curve
MaxedLevels ==
    [k \in Range(STATS_REFERENCE) |->
        IF k = "health" THEN Len(HP_INCREASES) - 1 ELSE Len(BASE_PERCENT) - 1]

\* maxed() that constructs an instance at every call and leaves the attribute
maxed_unmemoized(objs, attr) ==
    [instances |-> Append(objs, MaxedLevels), maxed |-> attr, ret |-> Return(Len(objs) + 1)]

\* ArenaBuffs.maxed(), objs the instances made so far and attr the attribute
\* maxed of the class: the classmethod constructs the instance and rebinds the
\* attribute to a lambda returning it; the lambda returns the instance it holds
maxed(objs, attr) ==
    IF attr = 0
    THEN LET max_buffs == Len(objs) + 1
         IN  [instances |-> Append(objs, MaxedLevels), maxed |-> max_buffs,
              ret |-> Return(max_buffs)]
    ELSE [instances |-> objs, maxed |-> attr, ret |-> Return(attr)]

\* buff(stat, enabled, value) of item_lookup.py, max_buffs the levels of MAX_BUFFS
buff(max_buffs, stat, enabled, value) ==
    IF ~enabled \/ stat = "health" THEN Return(value)
    ELSE total_buff(max_buffs, stat, value)

(***************************************************************************)
(* Python objects of orm_views.py.  Every object is a record tagged t.     *)
(***************************************************************************)
IntObj(n) == [t |-> "int", int |-> n]
StrObj(chars) == [t |-> "str", str |-> chars]
BoolObj(b) == [t |-> "bool", bool |-> b]
ListObj(seq) == [t |-> "list", list |-> seq]

\* Optional[...]: None, or a value
None == <<>>
Some(x) == <<x>>

\* bool(obj): an object that defines neither __bool__ nor __len__ is true
Truthy(obj) ==
    CASE obj.t = "bool" -> obj.bool
      [] obj.t = "int" -> obj.int # 0
      [] obj.t = "str" -> obj.str # ""
      [] OTHER -> TRUE


\* the int an int or a bool stands for
AsInt(obj) == IF obj.t = "bool" THEN (IF obj.bool THEN 1 ELSE 0) ELSE obj.int

\* the place of a character in the order of the characters
CharOrd(c) ==
    CHOOSE i \in 1..53 :
        CharAt(" ABCDEFGHIJKLMNOPQRSTUVWXYZabcdefghijklmnopqrstuvwxyz", i) = c

RECURSIVE StrLess(_, _)
StrLess(x, y) ==
    IF y = "" THEN FALSE
    ELSE IF x = "" THEN TRUE
    ELSE IF CharAt(x, 1) = CharAt(y, 1)
         THEN StrLess(SubSeq(x, 2, Len(x)), SubSeq(y, 2, Len(y)))
    ELSE CharOrd(CharAt(x, 1)) < CharOrd(CharAt(y, 1))

\* a & b and a | b of naturals
RECURSIVE BitAnd(_, _)
BitAnd(a, b) ==
    IF a = 0 \/ b = 0 THEN 0
    ELSE (a % 2) * (b % 2) + 2 * BitAnd(a \div 2, b \div 2)

\* a < b, where the two can be ordered
PyLess(a, b) == IF a.t = "str" THEN StrLess(a.str, b.str) ELSE AsInt(a) < AsInt(b)

\* func(a, b), func a function of the module operator
OpApply(func, a, b) ==
    LET IsNumber(obj) == obj.t \in {"int", "bool"}
        \* a == b
        PyEq == IF IsNumber(a) /\ IsNumber(b) THEN AsInt(a) = AsInt(b)
                ELSE IF a.t = "str" /\ b.t = "str" THEN a.str = b.str
                ELSE FALSE
        \* whether < and the like are defined between the two
        Ordered == (IsNumber(a) /\ IsNumber(b)) \/ (a.t = "str" /\ b.t = "str")
    IN
    CASE func = "eq" -> Return(BoolObj(PyEq))
      [] func \in {"gt", "ge", "lt", "le"} ->
            IF ~Ordered THEN Raise("TypeError")
            ELSE Return(BoolObj(CASE func = "gt" -> PyLess(b, a)
                                  [] func = "ge" -> ~PyLess(a, b)
                                  [] func = "lt" -> PyLess(a, b)
                                  [] func = "le" -> ~PyLess(b, a)))
      [] func \in {"and_", "or_"} ->
            IF a.t = "bool" /\ b.t = "bool"
            THEN Return(BoolObj(IF func = "and_" THEN a.bool /\ b.bool ELSE a.bool \/ b.bool))
            ELSE IF IsNumber(a) /\ IsNumber(b) /\ AsInt(a) >= 0 /\ AsInt(b) >= 0
            THEN Return(IntObj(IF func = "and_" THEN BitAnd(AsInt(a), AsInt(b))
                               ELSE AsInt(a) + AsInt(b) - BitAnd(AsInt(a), AsInt(b))))
            ELSE Raise("TypeError")

(***************************************************************************)
(* Button: the entities                                                    *)
(***************************************************************************)

\* getattr(value, attribute) for a Button: the Selector returns wrapped(value)
GetAttr(value, attribute) ==
    IF attribute = "custom_id" THEN StrObj(value.custom_id) ELSE IntObj(value.f)

(***************************************************************************)
(* Selector, Operator, AttributeProxy                                      *)
(***************************************************************************)
Selector(attribute) == [t |-> "Selector", attribute |-> attribute]

Operator(func, right, left) ==
    [t |-> "Operator", func |-> func, right |-> right, left |-> left]

AttributeProxy(type, attribute) ==
    [t |-> "AttributeProxy", type |-> type, attribute |-> attribute,
     method |-> None, args |-> None, kwargs |-> None]

\* Selector.type
Selector_type(self) ==
    LET \* the return annotation of a Selector of Button
        RetType == IF self.attribute = "custom_id" THEN "str" ELSE "int"
    IN  AttributeProxy(RetType, self.attribute)

\* Selector.__eq__, __gt__, __ge__, __lt__, __le__: func names the comparison
Selector_compare(func, self, other) == Operator(func, self, other)

Operator__or__(self, other) == Operator("or_", self, other)
Operator__and__(self, other) == Operator("and_", self, other)

\* getattr(type, name): the attributes of str and int the model knows

\* method(recv, *args, **kwargs) for an unbound method of str or int
MethodApply(name, recv, args, kwargs) ==
    IF kwargs # <<>> THEN Raise("TypeError")
    ELSE IF name \in {"startswith", "endswith"}
    THEN IF recv.t # "str" \/ Len(args) # 1 THEN Raise("TypeError")
         ELSE IF args[1].t # "str" THEN Raise("TypeError")
         ELSE LET s == recv.str
                  x == args[1].str
              IN  Return(BoolObj(
                      /\ Len(x) <= Len(s)
                      /\ IF name = "startswith" THEN SubSeq(s, 1, Len(x)) = x
                         ELSE SubSeq(s, Len(s) - Len(x) + 1, Len(s)) = x))
    ELSE IF recv.t # "int" \/ Len(args) # 0 THEN Raise("TypeError")
         ELSE Return(IntObj(SmallBitLen(Abs(recv.int))))

\* __call__ that binds the arguments again when called twice
AttributeProxy__call__rebinding(self, args, kwargs) ==
    IF self.method = None
    THEN [ret |-> Raise("TypeError"), self |-> self]
    ELSE [ret |-> Return("self"),
          self |-> [self EXCEPT !.args = Some(args), !.kwargs = Some(kwargs)]]

\* the three operations give the outcome (ret) and the proxy afterwards (self)
AttributeProxy__getattr__(self, name) ==
    IF self.method # None
    THEN [ret |-> Raise("AttributeError"), self |-> self]
    ELSE IF name \notin (IF self.type = "str" THEN {"startswith", "endswith"}
                         ELSE {"bit_length", "real"})
    THEN [ret |-> Raise("AttributeError"), self |-> self]
    ELSE IF name \notin {"startswith", "endswith", "bit_length"}
    THEN [ret |-> Raise("TypeError"), self |-> self]
    ELSE [ret |-> Return("self"), self |-> [self EXCEPT !.method = Some(name)]]

AttributeProxy__call__(self, args, kwargs) ==
    IF self.method = None
    THEN [ret |-> Raise("TypeError"), self |-> self]
    ELSE IF ~(self.args = None /\ self.kwargs = None)
    THEN [ret |-> Raise("TypeError"), self |-> self]
    ELSE [ret |-> Return("self"),
          self |-> [self EXCEPT !.args = Some(args), !.kwargs = Some(kwargs)]]

AttributeProxy_get(self, value) ==
    IF self.method = None \/ self.args = None \/ self.kwargs = None
    THEN Raise("TypeError")
    ELSE MethodApply(self.method[1], GetAttr(value, self.attribute),
                     self.args[1], self.kwargs[1])

RECURSIVE Operator_get(_, _)

\* the value of an operand of an Operator for an entity
Operand(x, value) ==
    CASE x.t = "Operator" -> Operator_get(x, value)
      [] x.t = "Selector" -> Return(GetAttr(value, x.attribute))
      [] x.t = "AttributeProxy" -> AttributeProxy_get(x, value)
      [] OTHER -> Return(x)

Operator_get(self, value) ==
    LET r_val == Operand(self.right, value)
        l_val == Operand(self.left, value)
    IN  IF ~Returned(r_val) THEN r_val
        ELSE IF ~Returned(l_val) THEN l_val
        ELSE OpApply(self.func, r_val.val, l_val.val)

(***************************************************************************)
(* Python expressions that build a predicate                               *)
(***************************************************************************)
\* lo <= selector <= hi, that is (lo <= selector) and (selector <= hi); int
\* cannot compare with a Selector, so lo <= selector is selector.__ge__(lo)
ChainedLe(lo, selector, hi) ==
    LET \* x and y
        PyAnd(x, y) == IF Truthy(x) THEN y ELSE x
    IN  PyAnd(Selector_compare("ge", selector, lo), Selector_compare("le", selector, hi))

\* x & y with no __rand__: an Operator on the right of a bool is not asked
AndExpr_unreflected(x, y) ==
    IF x.t = "Operator" THEN Return(Operator__and__(x, y))
    ELSE IF x.t = "bool" /\ y.t = "bool" THEN Return(BoolObj(x.bool /\ y.bool))
    ELSE Raise("TypeError")

\* x & y: x.__and__(y), or y.__rand__(x) where x does not define it for y
AndExpr(x, y) ==
    IF x.t = "Operator" THEN Return(Operator__and__(x, y))
    ELSE IF y.t = "Operator" THEN Return(Operator__and__(y, x))
    ELSE IF x.t = "bool" /\ y.t = "bool" THEN Return(BoolObj(x.bool /\ y.bool))
    ELSE Raise("TypeError")

\* x | y
OrExpr(x, y) ==
    IF x.t = "Operator" THEN Return(Operator__or__(x, y))
    ELSE IF y.t = "Operator" THEN Return(Operator__or__(y, x))
    ELSE IF x.t = "bool" /\ y.t = "bool" THEN Return(BoolObj(x.bool \/ y.bool))
    ELSE Raise("TypeError")

\* selector.type.name(*args), with no keywords: kwargs is the empty dict
MethodExpr(selector, name, args) ==
    LET got == AttributeProxy__getattr__(Selector_type(selector), name)
        called == AttributeProxy__call__(got.self, args, <<>>)
    IN  IF ~Returned(got.ret) THEN got.ret
        ELSE IF ~Returned(called.ret) THEN called.ret
        ELSE Return(called.self)

(***************************************************************************)
(* Manager                                                                 *)
(***************************************************************************)
\* pred.get(item)
PredGet(pred, item) ==
    CASE pred.t = "Operator" -> Operator_get(pred, item)
      [] pred.t = "AttributeProxy" -> AttributeProxy_get(pred, item)
      [] OTHER -> Raise("AttributeError")

RECURSIVE FindFrom(_, _, _)
FindFrom(its, pred, i) ==
    IF i > Len(its) THEN Return(None)
    ELSE LET got == PredGet(pred, its[i])
         IN  IF ~Returned(got) THEN got
             ELSE IF Truthy(got.val) THEN Return(Some(its[i]))
             ELSE FindFrom(its, pred, i + 1)

\* find that goes on to the last match
RECURSIVE FindLastFrom(_, _, _, _)
FindLastFrom(its, pred, i, found) ==
    IF i > Len(its) THEN Return(found)
    ELSE LET got == PredGet(pred, its[i])
         IN  IF ~Returned(got) THEN got
             ELSE FindLastFrom(its, pred, i + 1,
                               IF Truthy(got.val) THEN Some(its[i]) ELSE found)

Manager_find_last(its, pred) ==
    IF pred.t = "bool" THEN Raise("AssertionError") ELSE FindLastFrom(its, pred, 1, None)

\* find without the assertion
Manager_find_unchecked(its, pred) == FindFrom(its, pred, 1)

Manager_find(its, pred) ==
    IF pred.t = "bool" THEN Raise("AssertionError") ELSE FindFrom(its, pred, 1)

Manager_find_all(its, pred) ==
    LET RECURSIVE FindAllFrom(_)
        FindAllFrom(i) ==
            IF i > Len(its) THEN Return(<<>>)
            ELSE LET got == PredGet(pred, its[i])
                     rest == FindAllFrom(i + 1)
                 IN  IF ~Returned(got) THEN got
                     ELSE IF ~Returned(rest) THEN rest
                     ELSE Return((IF Truthy(got.val) THEN <<its[i]>> ELSE <<>>) \o rest.val)
    IN  IF pred.t = "bool" THEN Raise("AssertionError") ELSE FindAllFrom(1)

(***************************************************************************)
(* ArenaBuffs.buff_stats: a dict is the sequence of its entries, in        *)
(* insertion order; a value is an int or a list of ints                    *)
(***************************************************************************)
\* dict_items_as(int | list[int], stats): the entries of stats, in order
dict_items_as(stats) == stats

\* the body of the loop: the value stored under the key
BuffEntry(lv, key, value, buff_health) ==
    LET \* [self.total_buff(key, v) for v in value]
        RECURSIVE BuffEach(_)
        BuffEach(i) ==
            IF i > Len(value.list) THEN Return(<<>>)
            ELSE LET first == total_buff(lv, key, value.list[i])
                     rest == BuffEach(i + 1)
                 IN  IF ~Returned(first) THEN first
                     ELSE IF ~Returned(rest) THEN rest
                     ELSE Return(<<first.val>> \o rest.val)
    IN  IF key = "health" /\ ~buff_health
        THEN IF value.t # "int" THEN Raise("AssertionError") ELSE Return(value)
        ELSE IF value.t = "list"
        THEN LET each == BuffEach(1)
             IN  IF Returned(each) THEN Return(ListObj(each.val)) ELSE each
        ELSE LET total == total_buff(lv, key, value.int)
             IN  IF Returned(total) THEN Return(IntObj(total.val)) ELSE total

\* buff_stats that buffs health whatever the flag
buff_stats_health_always(lv, stats, buff_health) ==
    LET entries == dict_items_as(stats)
        RECURSIVE BuffFrom(_, _)
        BuffFrom(i, buffed) ==
            IF i > Len(entries) THEN Return(buffed)
            ELSE LET stored == BuffEntry(lv, entries[i].key, entries[i].value, TRUE)
                 IN  IF ~Returned(stored) THEN stored
                     ELSE BuffFrom(i + 1, Append(buffed, [key |-> entries[i].key,
                                                          value |-> stored.val]))
    IN  BuffFrom(1, <<>>)

\* buff_stats that skips the health entry it does not buff
buff_stats_skipping(lv, stats, buff_health) ==
    LET entries == dict_items_as(stats)
        RECURSIVE BuffFrom(_, _)
        BuffFrom(i, buffed) ==
            IF i > Len(entries) THEN Return(buffed)
            ELSE IF entries[i].key = "health" /\ ~buff_health THEN BuffFrom(i + 1, buffed)
            ELSE LET stored == BuffEntry(lv, entries[i].key, entries[i].value, buff_health)
                 IN  IF ~Returned(stored) THEN stored
                     ELSE BuffFrom(i + 1, Append(buffed, [key |-> entries[i].key,
                                                          value |-> stored.val]))
    IN  BuffFrom(1, <<>>)

buff_stats(lv, stats, buff_health) ==
    LET entries == dict_items_as(stats)
        RECURSIVE BuffFrom(_, _)
        BuffFrom(i, buffed) ==
            IF i > Len(entries) THEN Return(buffed)
            ELSE LET stored == BuffEntry(lv, entries[i].key, entries[i].value, buff_health)
                 IN  IF ~Returned(stored) THEN stored
                     ELSE BuffFrom(i + 1, Append(buffed, [key |-> entries[i].key,
                                                          value |-> stored.val]))
    IN  BuffFrom(1, <<>>)

\* buff_stats that stores the buffed values into the bag passed (buffed = stats)
buff_stats_bag_in_place(lv, stats, buff_health) ==
    LET r == buff_stats(lv, stats, buff_health)
    IN  IF Returned(r) THEN r.val ELSE stats

\* the bag passed to buff_stats, after the call: the values are stored into
\* buffed, a dict of the call's own, and into nothing else
buff_stats_bag(lv, stats, buff_health) == stats

\* total_buff_difference(stat, value): the tuple (buffed, buffed - value)
total_buff_difference(lv, stat, value) ==
    LET buffed == total_buff(lv, stat, value)
    IN  IF Returned(buffed) THEN Return(<<buffed.val, buffed.val - value>>) ELSE buffed

(***************************************************************************)
(* str methods, for strings of letters and spaces                          *)
(***************************************************************************)
\* the character s[i] of Python, i counted from 0, and the slice s[p:q]
At(s, i) == CharAt(s, i + 1)

Letters == " ABCDEFGHIJKLMNOPQRSTUVWXYZabcdefghijklmnopqrstuvwxyz"

\* c.isupper(), c.islower() of one character, and whether it is cased
CharIsUpper(c) == \E i \in 2..27 : CharAt(Letters, i) = c
CharIsLower(c) == \E i \in 28..53 : CharAt(Letters, i) = c

\* c.lower()
CharLower(c) == IF CharIsUpper(c) THEN CharAt(Letters, CharOrd(c) + 26) ELSE c

\* s.lower()
Lower(s) ==
    LET RECURSIVE LowerFrom(_)
        LowerFrom(i) == IF i > Len(s) THEN "" ELSE CharLower(CharAt(s, i)) \o LowerFrom(i + 1)
    IN  LowerFrom(1)

\* s.isupper(): a cased character, and no lowercase one
IsUpper(s) ==
    /\ \E i \in 1..Len(s) : (CharIsUpper(CharAt(s, i)) \/ CharIsLower(CharAt(s, i)))
    /\ \A i \in 1..Len(s) : ~CharIsLower(CharAt(s, i))

\* s.istitle(): a cased character; an uppercase one only after an uncased one,
\* a lowercase one only after a cased one
IsTitle(s) ==
    /\ \E i \in 1..Len(s) : (CharIsUpper(CharAt(s, i)) \/ CharIsLower(CharAt(s, i)))
    /\ \A i \in 1..Len(s) :
          LET after_cased == i > 1 /\ (CharIsUpper(CharAt(s, i - 1)) \/ CharIsLower(CharAt(s, i - 1)))
          IN  /\ CharIsUpper(CharAt(s, i)) => ~after_cased
              /\ CharIsLower(CharAt(s, i)) => after_cased

\* " " in s
HasSpace(s) == \E i \in 1..Len(s) : CharAt(s, i) = " "

(***************************************************************************)
(* abbreviate_name, abbreviate_names                                       *)
(***************************************************************************)
\* abbreviate_name that skips no name
abbreviate_name_unskipped(name) ==
    LET RECURSIVE UpperLettersFrom(_)
        UpperLettersFrom(i) ==
            IF i > Len(name) THEN ""
            ELSE (IF CharIsUpper(CharAt(name, i)) THEN CharLower(CharAt(name, i)) ELSE "")
                     \o UpperLettersFrom(i + 1)
    IN  Some(UpperLettersFrom(1))

\* None, or the abbreviation: "".join(a.lower() for a in name if a.isupper())
abbreviate_name(name) ==
    LET RECURSIVE UpperLettersFrom(_)
        UpperLettersFrom(i) ==
            IF i > Len(name) THEN ""
            ELSE (IF CharIsUpper(CharAt(name, i)) THEN CharLower(CharAt(name, i)) ELSE "")
                     \o UpperLettersFrom(i + 1)
    IN  IF IsUpper(name) \/ (~HasSpace(name) /\ IsTitle(name)) THEN None
        ELSE Some(UpperLettersFrom(1))

\* HeronMark => heron, mark: the loop cuts the name before every uppercase
\* letter, keeps the pieces that are not empty, and adds what follows the last cut
Fragments(name) ==
    LET uppers == {i \in 0..(Len(name) - 1) : CharIsUpper(At(name, i))}
        cuts == {0} \cup uppers
        last == CHOOSE i \in cuts : \A j \in cuts : j <= i
        piece(p) == LET q == CHOOSE i \in uppers : i > p /\ \A j \in uppers : j > p => i <= j
                    IN  SubSeq(name, p + 1, q)
    IN  {Lower(piece(p)) : p \in {c \in cuts : c < last /\ piece(c) # ""}}
            \cup {Lower(SubSeq(name, last + 1, Len(name)))}

\* the keys of a name, the aliases left out
Abbrev_primary(name, abb) == {abb}

\* the keys one name is registered under
Abbrev(name, abb) ==
    LET \* s.replace(" ", "")
        RemoveSpaces(s) ==
            LET RECURSIVE RemoveSpacesFrom(_)
                RemoveSpacesFrom(i) ==
                    IF i > Len(s) THEN ""
                    ELSE (IF CharAt(s, i) = " " THEN "" ELSE CharAt(s, i))
                             \o RemoveSpacesFrom(i + 1)
            IN  RemoveSpacesFrom(1)
    IN
    {abb} \cup (IF HasSpace(name) THEN {Lower(RemoveSpaces(name))}
                ELSE IF ~IsTitle(name) THEN Fragments(name)
                ELSE {})

\* abbrevs[abb] = {name} for every abb of abbrev
Register_overwriting(abbrevs, abbrev, name) ==
    [key \in DOMAIN abbrevs \cup abbrev |-> IF key \in abbrev THEN {name} ELSE abbrevs[key]]

\* abbrevs.setdefault(abb, {name}).add(name) for every abb of abbrev; a dict
\* is a function on its keys
Register(abbrevs, abbrev, name) ==
    [key \in DOMAIN abbrevs \cup abbrev |->
        (IF key \in DOMAIN abbrevs THEN abbrevs[key] ELSE {})
            \cup (IF key \in abbrev THEN {name} ELSE {})]

\* one turn of the loop of abbreviate_names: abbrevs after name
abbreviate_names_turn(abbrevs, name) ==
    LET abb == abbreviate_name(name)
    IN  IF abb = None THEN abbrevs ELSE Register(abbrevs, Abbrev(name, abb[1]), name)

abbreviate_names(names) ==
    LET RECURSIVE AbbreviateFrom(_, _)
        AbbreviateFrom(i, abbrevs) ==
            IF i > Len(names) THEN abbrevs
            ELSE AbbreviateFrom(i + 1, abbreviate_names_turn(abbrevs, names[i]))
    IN  AbbreviateFrom(1, <<>>)

(***************************************************************************)
(* difflib.SequenceMatcher(isjunk, a, b): a is seq1, b is seq2; positions  *)
(* are counted from 0 and a window is alo <= i < ahi, blo <= j < bhi.      *)
(* The strings are far below the 200 characters where autojunk starts.     *)
(***************************************************************************)
\* lambda x: x == " "
isjunk(x) == x = " "

\* find_longest_match: the longest junk-free block, the one found first by the
\* scan of a and, for one i, of the positions of b in increasing order; then
\* extended by what matches on both sides, junk-free first and junk after
find_longest_match(a, b, alo, ahi, blo, bhi) ==
    LET \* how many steps back from a[i], b[j] the two agree inside the window, on
        \* characters of b that are junk (junk = TRUE) or are not (junk = FALSE)
        RunBack(i, j, junk) ==
            LET most == Min(i - alo, j - blo) + 1
                same(d) == At(a, i - d) = At(b, j - d) /\ isjunk(At(b, j - d)) = junk
            IN  CHOOSE n \in 0..most :
                    (\A d \in 0..(n - 1) : same(d)) /\ (n = most \/ ~same(n))
        \* the same, forward from a[i], b[j]
        RunForward(i, j, junk) ==
            LET most == Min(ahi - i, bhi - j)
                same(d) == At(a, i + d) = At(b, j + d) /\ isjunk(At(b, j + d)) = junk
            IN  CHOOSE n \in 0..most :
                    (\A d \in 0..(n - 1) : same(d)) /\ (n = most \/ ~same(n))
        ends == (alo..(ahi - 1)) \X (blo..(bhi - 1))
        k(e) == RunBack(e[1], e[2], FALSE)
        bestsize == IF ends = {} THEN 0
                    ELSE LET e == CHOOSE e \in ends : \A f \in ends : k(f) <= k(e)
                         IN  k(e)
        best == IF bestsize = 0 THEN [i |-> alo, j |-> blo, size |-> 0]
                ELSE LET firsts == {e \in ends : k(e) = bestsize}
                         e == CHOOSE e \in firsts : \A f \in firsts :
                                  e[1] < f[1] \/ (e[1] = f[1] /\ e[2] <= f[2])
                     IN  [i |-> e[1] - bestsize + 1, j |-> e[2] - bestsize + 1,
                          size |-> bestsize]
        left(m, junk) ==
            LET n == RunBack(m.i - 1, m.j - 1, junk)
            IN  [i |-> m.i - n, j |-> m.j - n, size |-> m.size + n]
        right(m, junk) ==
            LET n == RunForward(m.i + m.size, m.j + m.size, junk)
            IN  [m EXCEPT !.size = m.size + n]
    IN  right(left(right(left(best, FALSE), FALSE), TRUE), TRUE)

\* get_matching_blocks, summed: the number of characters matched in the window
RECURSIVE MatchedIn(_, _, _, _, _, _)
MatchedIn(a, b, alo, ahi, blo, bhi) ==
    LET m == find_longest_match(a, b, alo, ahi, blo, bhi)
    IN  IF m.size = 0 THEN 0
        ELSE m.size
             + (IF alo < m.i /\ blo < m.j THEN MatchedIn(a, b, alo, m.i, blo, m.j) ELSE 0)
             + (IF m.i + m.size < ahi /\ m.j + m.size < bhi
                THEN MatchedIn(a, b, m.i + m.size, ahi, m.j + m.size, bhi)
                ELSE 0)

\* a ratio is the fraction num / den, den > 0
\* _calculate_ratio(matches, length): 2.0 * matches / length, 1.0 of length 0
calculate_ratio(matches, length) ==
    IF length > 0 THEN [num |-> 2 * matches, den |-> length] ELSE [num |-> 1, den |-> 1]

SequenceMatcher_ratio(a, b) ==
    calculate_ratio(MatchedIn(a, b, 0, Len(a), 0, Len(b)), Len(a) + Len(b))

\* quick_ratio: the characters of a, each matched while b has one of it left
SequenceMatcher_quick_ratio(a, b) ==
    LET \* how many times the character occurs
        Count(s, c) == Cardinality({i \in 1..Len(s) : CharAt(s, i) = c})
        RECURSIVE Avail(_)
        Avail(i) == IF i > 53 THEN 0
                    ELSE Min(Count(a, CharAt(Letters, i)), Count(b, CharAt(Letters, i)))
                             + Avail(i + 1)
    IN  calculate_ratio(Avail(1), Len(a) + Len(b))

SequenceMatcher_real_quick_ratio(a, b) ==
    calculate_ratio(Min(Len(a), Len(b)), Len(a) + Len(b))

\* x >= y, x == y and x > y of ratios
RatioGE(x, y) == x.num * y.den >= y.num * x.den

\* cutoff = 0.6
cutoff == [num |-> 6, den |-> 10]

(***************************************************************************)
(* get_matching_items                                                      *)
(***************************************************************************)
\* the names the model draws the corpus from, and the queries
NamePool ==
    {"Hybrid Heat Cannon", "Hover Heli Copter", "HeronMark", "Heron", "HERON", "EMP"}

Queries == NamePool \cup {"hhc", "hm", "Hero", "xyz"}

\* mapping[name]: the model's mapping is the sequence of its keys, in the
\* order of insertion, and the entity of a name carries that name
Item(name) == [name |-> name]

\* s.lower() of the names and the queries, computed once
lower == [s \in NamePool \cup Queries |-> Lower(s)]

\* what the matcher computes for seq1 = a and seq2 = b, once for each pair
Scores ==
    [a \in {lower[n] : n \in NamePool}, b \in {lower[q] : q \in Queries} |->
        [real_quick_ratio |-> SequenceMatcher_real_quick_ratio(a, b),
         quick_ratio |-> SequenceMatcher_quick_ratio(a, b),
         ratio |-> SequenceMatcher_ratio(a, b)]]

\* predicate(), for seq1 = a and seq2 = b
predicate(a, b) ==
    /\ RatioGE(Scores[a, b].real_quick_ratio, cutoff)
    /\ RatioGE(Scores[a, b].quick_ratio, cutoff)
    /\ RatioGE(Scores[a, b].ratio, cutoff)

\* a local variable, assigned once and read after: Bind({e(v) : v \in {x}})
\* is e(x), with x computed once
Bind(values) == CHOOSE y \in values : TRUE

\* the entries sorted by ratio, the highest first, entries of equal ratio in
\* their order in matched (stable) or in the reverse of it
SortedByRatio(matched, stable) ==
    LET size == Len(matched)
        before(i) == Cardinality({j \in 1..size :
                         \/ ~RatioGE(matched[i].ratio, matched[j].ratio)
                         \/ /\ RatioGE(matched[j].ratio, matched[i].ratio)
                            /\ IF stable THEN j < i ELSE j > i})
    IN  [r \in 1..size |-> matched[CHOOSE i \in 1..size : before(i) = r - 1]]

\* entries of equal ratio in the reverse of their order
nlargest_last_first(n, matched) ==
    Bind({SubSeq(SortedByRatio(m, FALSE), 1, Min(Max(n, 0), Len(m))) : m \in {matched}})

\* as many entries as there are, whatever n
nlargest_all(n, matched) ==
    Bind({SubSeq(SortedByRatio(m, TRUE), 1, Len(m)) : m \in {matched}})

\* the first n entries as they stand, not sorted
nlargest_unsorted(n, matched) ==
    Bind({SubSeq(m, 1, Min(Max(n, 0), Len(m))) : m \in {matched}})

\* heapq.nlargest(n, matched, key=ratio): the n entries of highest ratio, the
\* highest first, entries of equal ratio in their order in matched; none for n <= 0
nlargest(n, matched) ==
    Bind({SubSeq(SortedByRatio(m, TRUE), 1, Min(Max(n, 0), Len(m))) : m \in {matched}})

\* the loop over the mapping: matched, from the i-th name on
RECURSIVE MatchedFrom(_, _, _)
MatchedFrom(mapping, lname, i) ==
    IF i > Len(mapping) THEN <<>>
    ELSE (IF predicate(lower[mapping[i]], lname)
          THEN <<[ratio |-> Scores[lower[mapping[i]], lname].ratio,
                  item |-> Item(mapping[i])]>>
          ELSE <<>>)
             \o MatchedFrom(mapping, lname, i + 1)

\* [mapping[name] for name in item_names]
RECURSIVE Lookup(_, _, _)
Lookup(mapping, item_names, i) ==
    IF i > Len(item_names) THEN Return(<<>>)
    ELSE IF item_names[i] \notin Range(mapping) THEN Raise("KeyError")
    ELSE LET rest == Lookup(mapping, item_names, i + 1)
         IN  IF Returned(rest) THEN Return(<<Item(item_names[i])>> \o rest.val) ELSE rest

\* items.extend(item for _, item in largest)
RECURSIVE Extend(_, _, _)
Extend(listed, largest, i) ==
    IF i > Len(largest) THEN listed
    ELSE Extend(Append(listed, largest[i].item), largest, i + 1)

\* the silent slicing the code refuses: the first limit abbreviation matches
get_matching_items_slicing(mapping, name, abbrevs, limit, order) ==
    LET lname == lower[name]
        item_names == IF lname \in DOMAIN abbrevs
                      THEN SubSeq(order, 1, Min(Max(limit, 0), Len(order)))
                      ELSE <<>>
    IN  Bind({IF ~Returned(listed) THEN listed
              ELSE Bind({Return(Extend(listed.val, largest, 1)) :
                            largest \in {nlargest(limit - Len(listed.val),
                                                  MatchedFrom(mapping, lname, 1))}}) :
                 listed \in {Lookup(mapping, item_names, 1)}})

\* order is the order the set abbrevs[name] is iterated in
get_matching_items(mapping, name, abbrevs, limit, order) ==
    LET lname == lower[name]
        found == lname \in DOMAIN abbrevs
        item_names == IF found THEN order ELSE <<>>
    IN  IF found /\ Len(item_names) > limit THEN Raise("ValueError")
        ELSE Bind({IF ~Returned(listed) THEN listed
                   ELSE Bind({IF matched = <<>> THEN listed
                              ELSE Bind({Return(Extend(listed.val, largest, 1)) :
                                            largest \in {nlargest(limit - Len(listed.val),
                                                                  matched)}}) :
                                 matched \in {MatchedFrom(mapping, lname, 1)}}) :
                      listed \in {Lookup(mapping, item_names, 1)}})

(***************************************************************************)
(* Bounds of the ArenaBuffs inputs                                         *)
(***************************************************************************)
LevelSpan == 13
MaxBase == 60
MaxStats == 2

LevelValues == -LevelSpan..LevelSpan
BaseValues == -MaxBase..MaxBase
\* the stats of STATS_REFERENCE and one stat outside it (WORKSHOP_STATS[0])
StatNames == Range(STATS_REFERENCE) \cup {"weight"}

\* the dicts an ArenaBuffs is constructed with: every stat at one level
\* (level 0 is the default of __init__), the levels of maxed(), or a dict
\* of two stats only
LevelDicts ==
    {FromKeys(STATS_REFERENCE, l) : l \in LevelValues}
        \cup {MaxedLevels, FromKeys(<<"eneCap", "expRes">>, 2)}

\* values beyond 2^53, the integers a float holds exactly: 2^53 + 1, 2^53 + 2,
\* their negatives, and 2^1024, beyond the largest float
WideValues ==
    {[neg |-> neg, mag |-> AddBig(ShiftLeft(<<1>>, 53), <<k>>)] : neg \in BOOLEAN, k \in 1..2}
        \cup {[neg |-> FALSE, mag |-> ShiftLeft(<<1>>, 1024)]}

\* the stats bags: up to MaxStats entries, no key twice, each value an int or
\* a pair of ints
StatsBags ==
    LET keys == {"health", "eneCap", "expRes", "weight"}
        values == {IntObj(55), ListObj(<<15, 55>>)}
    IN  UNION {{bag \in [1..n -> [key : keys, value : values]] :
                   \A i, j \in 1..n : bag[i].key = bag[j].key => i = j} :
                  n \in 0..MaxStats}

\* no call in progress, no outcome
IdleCall == [op |-> "idle"]
NoRet == [exc |-> "idle"]

TotalBuff(stat, value) ==
    /\ buffCall.op = "idle"
    /\ buffCall' = [op |-> "total_buff", stat |-> stat, arg |-> value]
    /\ buffRet' = total_buff(levels, stat, value)
    /\ UNCHANGED <<levels, instances, maxedAttr, MAX_BUFFS, queryVars, proxyVars, matchVars,
                   listenerVars>>

\* total_buff(stat, value) for a value of WideValues
TotalBuffWide(stat, value) ==
    /\ buffCall.op = "idle"
    /\ buffCall' = [op |-> "total_buff_wide", stat |-> stat, wide |-> value]
    /\ buffRet' = total_buff_wide(levels, stat, value)
    /\ UNCHANGED <<levels, instances, maxedAttr, MAX_BUFFS, queryVars, proxyVars, matchVars,
                   listenerVars>>

GetPercent(stat, level) ==
    /\ buffCall.op = "idle"
    /\ buffCall' = [op |-> "get_percent", stat |-> stat, arg |-> level]
    /\ buffRet' = get_percent(stat, level)
    /\ UNCHANGED <<levels, instances, maxedAttr, MAX_BUFFS, queryVars, proxyVars, matchVars,
                   listenerVars>>

BuffAsStr(stat, level) ==
    /\ buffCall.op = "idle"
    /\ buffCall' = [op |-> "buff_as_str", stat |-> stat, arg |-> level]
    /\ buffRet' = buff_as_str(stat, level)
    /\ UNCHANGED <<levels, instances, maxedAttr, MAX_BUFFS, queryVars, proxyVars, matchVars,
                   listenerVars>>

TotalBuffDifference(stat, value) ==
    /\ buffCall.op = "idle"
    /\ buffCall' = [op |-> "total_buff_difference", stat |-> stat, arg |-> value]
    /\ buffRet' = total_buff_difference(levels, stat, value)
    /\ UNCHANGED <<levels, instances, maxedAttr, MAX_BUFFS, queryVars, proxyVars, matchVars,
                   listenerVars>>

\* stats is the bag as passed, bag the caller's bag once the call is over
BuffStats(stats, buff_health) ==
    /\ buffCall.op = "idle"
    /\ buffCall' = [op |-> "buff_stats", stats |-> stats, buff_health |-> buff_health,
                    bag |-> buff_stats_bag(levels, stats, buff_health)]
    /\ buffRet' = buff_stats(levels, stats, buff_health)
    /\ UNCHANGED <<levels, instances, maxedAttr, MAX_BUFFS, queryVars, proxyVars, matchVars,
                   listenerVars>>

\* the caller takes the outcome; the instance is ready for the next call
BuffDone ==
    /\ buffCall.op # "idle"
    /\ buffCall' = IdleCall
    /\ buffRet' = NoRet
    /\ UNCHANGED <<levels, instances, maxedAttr, MAX_BUFFS, queryVars, proxyVars, matchVars,
                   listenerVars>>

\* MAX_BUFFS = ArenaBuffs.maxed(), the last statement of the class's module
ImportCore ==
    /\ MAX_BUFFS = 0
    /\ buffCall.op = "idle"
    /\ LET r == Bind({maxed(objs, maxedAttr) : objs \in {instances}})
       IN  /\ instances' = r.instances
           /\ maxedAttr' = r.maxed
           /\ MAX_BUFFS' = r.ret.val
           /\ buffCall' = [op |-> "maxed", first |-> TRUE]
           /\ buffRet' = r.ret
    /\ UNCHANGED <<levels, queryVars, proxyVars, matchVars, listenerVars>>

\* ArenaBuffs.maxed(), called once the module is imported
Maxed ==
    /\ MAX_BUFFS # 0
    /\ buffCall.op = "idle"
    /\ LET r == Bind({maxed(objs, maxedAttr) : objs \in {instances}})
       IN  /\ instances' = r.instances
           /\ maxedAttr' = r.maxed
           /\ buffCall' = [op |-> "maxed", first |-> FALSE]
           /\ buffRet' = r.ret
    /\ UNCHANGED <<levels, MAX_BUFFS, queryVars, proxyVars, matchVars, listenerVars>>

\* buff(stat, enabled, value): a buff operation on the instance of MAX_BUFFS
Buff(stat, enabled, value) ==
    /\ MAX_BUFFS # 0
    /\ buffCall.op = "idle"
    /\ buffCall' = [op |-> "buff", stat |-> stat, enabled |-> enabled, arg |-> value]
    /\ buffRet' = buff(instances[MAX_BUFFS], stat, enabled, value)
    /\ UNCHANGED <<levels, instances, maxedAttr, MAX_BUFFS, queryVars, proxyVars, matchVars,
                   listenerVars>>

(***************************************************************************)
(* Claims about ArenaBuffs, checked under SpecBuffs                        *)
(***************************************************************************)
\* the length of the curve of a stat
CurveLen(stat) == IF stat = "health" THEN Len(HP_INCREASES) ELSE Len(BASE_PERCENT)

ValidLevel(stat, level) == 0 <= level /\ level <= CurveLen(stat) - 1

\* the level a call is about: its argument, or the level of the instance
CallLevel == IF buffCall.op = "total_buff" THEN levels[buffCall.stat] ELSE buffCall.arg

\* C8: for every stat and every level outside [0, len(curve) - 1], negative
\* levels included, get_percent, buff_as_str and total_buff (on an instance
\* whose level for the stat is that level) signal an error and return no value.
C8_OutOfRangeSignals ==
    /\ buffCall.op \in {"get_percent", "buff_as_str"}
         => (~ValidLevel(buffCall.stat, buffCall.arg) => ~Returned(buffRet))
    /\ buffCall.op = "total_buff" /\ buffCall.stat \in DOMAIN levels
         => (~ValidLevel(buffCall.stat, levels[buffCall.stat]) => ~Returned(buffRet))

\* C9: at every valid level get_percent is -BASE_PERCENT[level] for backfire,
\* 2 * BASE_PERCENT[level] for expRes, eleRes and phyRes, BASE_PERCENT[level]
\* for every other stat but health; for health it raises at every level.
C9_PercentRule ==
    buffCall.op = "get_percent" =>
        IF buffCall.stat = "health" THEN buffRet = Raise("TypeError")
        ELSE buffCall.arg \in 0..(Len(BASE_PERCENT) - 1) =>
            /\ Returned(buffRet)
            /\ buffRet.val =
                 CASE buffCall.stat = "backfire" -> -BASE_PERCENT[buffCall.arg + 1]
                   [] buffCall.stat \in {"expRes", "eleRes", "phyRes"} ->
                          2 * BASE_PERCENT[buffCall.arg + 1]
                   [] OTHER -> BASE_PERCENT[buffCall.arg + 1]

\* C9 happens: get_percent("expRes", 2) has returned 6
C9_Witness ==
    /\ buffCall = [op |-> "get_percent", stat |-> "expRes", arg |-> 2]
    /\ buffRet = Return(6)

\* the percent of a stat at a level, as C9 gives it
PercentOf(stat, level) ==
    CASE stat = "backfire" -> -BASE_PERCENT[level + 1]
      [] stat \in {"expRes", "eleRes", "phyRes"} -> 2 * BASE_PERCENT[level + 1]
      [] OTHER -> BASE_PERCENT[level + 1]

\* the rules that resolve an exact half
TieRules == {"even", "odd", "away", "zero", "up", "down"}

\* n / 100 rounded to the nearest integer, an exact half by the rule
RoundHalf(rule, n) ==
    LET fl == n \div 100
        r == n % 100
    IN  IF r < 50 THEN fl
        ELSE IF r > 50 THEN fl + 1
        ELSE CASE rule = "even" -> IF fl % 2 = 0 THEN fl ELSE fl + 1
               [] rule = "odd" -> IF fl % 2 = 0 THEN fl + 1 ELSE fl
               [] rule = "away" -> IF n > 0 THEN fl + 1 ELSE fl
               [] rule = "zero" -> IF n > 0 THEN fl ELSE fl + 1
               [] rule = "up" -> fl + 1
               [] rule = "down" -> fl

\* C10: for every non-health stat of the levels and every base value,
\* total_buff returns base * (100 + percent) / 100 rounded to the nearest
\* integer, exact halves resolved by one rule that also resolves the halves
\* of every other base value of that stat; eneCap at level 3 turns 100 into
\* 105 and expRes at level 2 turns 50 into 53.
C10_FixedTieRule ==
    /\ buffCall.op = "total_buff" /\ buffCall.stat \in DOMAIN levels
          /\ buffCall.stat # "health" /\ ValidLevel(buffCall.stat, levels[buffCall.stat])
         => LET pct == PercentOf(buffCall.stat, levels[buffCall.stat])
            IN  /\ Returned(buffRet)
                /\ \E rule \in TieRules :
                      /\ buffRet.val = RoundHalf(rule, buffCall.arg * (100 + pct))
                      /\ \A v \in BaseValues :
                            (v * (100 + pct)) % 100 = 50 =>
                                total_buff(levels, buffCall.stat, v).val
                                    = RoundHalf(rule, v * (100 + pct))
    /\ levels["eneCap"] = 3 => total_buff(levels, "eneCap", 100) = Return(105)
    /\ levels["expRes"] = 2 => total_buff(levels, "expRes", 50) = Return(53)

\* C11: at every valid health level, total_buff("health", v) is
\* v + HP_INCREASES[level], for every base value v; for a wide v, the result
\* has the sign of v and its magnitude differs from that of v by the increase.
C11_HealthAbsolute ==
    /\ (/\ buffCall.op = "total_buff" /\ buffCall.stat = "health"
        /\ "health" \in DOMAIN levels /\ ValidLevel("health", levels["health"]))
          => buffRet = Return(buffCall.arg + HP_INCREASES[levels["health"] + 1])
    /\ (/\ buffCall.op = "total_buff_wide" /\ buffCall.stat = "health"
        /\ "health" \in DOMAIN levels /\ ValidLevel("health", levels["health"]))
          => /\ Returned(buffRet)
             /\ buffRet.val.neg = buffCall.wide.neg
             /\ LET increase == NatBig(HP_INCREASES[levels["health"] + 1])
                IN  IF buffCall.wide.neg
                    THEN Trim(AddBig(buffRet.val.mag, increase)) = buffCall.wide.mag
                    ELSE Trim(AddBig(buffCall.wide.mag, increase)) = buffRet.val.mag

\* C12: for every stat of STATS_REFERENCE whose level is 0, total_buff(stat, v)
\* is v, for every integer v.
C12_LevelZeroIdentity ==
    LET at_zero == /\ buffCall.stat \in Range(STATS_REFERENCE)
                   /\ buffCall.stat \in DOMAIN levels
                   /\ levels[buffCall.stat] = 0
    IN  /\ (buffCall.op = "total_buff" /\ at_zero) => buffRet = Return(buffCall.arg)
        /\ (buffCall.op = "total_buff_wide" /\ at_zero) => buffRet = Return(buffCall.wide)

\* total_buff("health", 50) at health level 3 has returned 110
C11_Witness ==
    /\ buffCall = [op |-> "total_buff", stat |-> "health", arg |-> 50]
    /\ levels = FromKeys(STATS_REFERENCE, 3)
    /\ buffRet = Return(110)

\* C14: both curves are non-decreasing by index; the percent get_percent has
\* returned for a recognized stat other than health at a valid level a is at
\* most its percent at every valid level b >= a, and for backfire at least.
C14_Monotone ==
    /\ \A i \in 1..(Len(BASE_PERCENT) - 1) : BASE_PERCENT[i] <= BASE_PERCENT[i + 1]
    /\ \A i \in 1..(Len(HP_INCREASES) - 1) : HP_INCREASES[i] <= HP_INCREASES[i + 1]
    /\ (/\ buffCall.op = "get_percent"
        /\ buffCall.stat \in Range(STATS_REFERENCE) \ {"health"}
        /\ ValidLevel(buffCall.stat, buffCall.arg))
          => /\ Returned(buffRet)
             /\ \A b \in buffCall.arg..(Len(BASE_PERCENT) - 1) :
                   LET later == get_percent(buffCall.stat, b)
                   IN  /\ Returned(later)
                       /\ IF buffCall.stat = "backfire" THEN buffRet.val >= later.val
                          ELSE buffRet.val <= later.val

\* get_percent("backfire", 3) has returned -5, above the -20 of level 10
C14_Witness ==
    /\ buffCall = [op |-> "get_percent", stat |-> "backfire", arg |-> 3]
    /\ buffRet = Return(-5)

\* the number a string of decimal digits stands for; -1 for any other string
DigitsValue(s) ==
    LET digit(c) == CHOOSE d \in 0..9 : CharAt("0123456789", d + 1) = c
        RECURSIVE value(_)
        value(n) == IF n = 0 THEN 0 ELSE 10 * value(n - 1) + digit(CharAt(s, n))
    IN  IF s # "" /\ \A i \in 1..Len(s) : \E d \in 0..9 : CharAt("0123456789", d + 1) = CharAt(s, i)
        THEN value(Len(s))
        ELSE -1

\* C15: for a recognized stat at a valid level, buff_as_str is a sign, then
\* the digits of a magnitude, then "%" unless the stat is health; sign and
\* magnitude are those of HP_INCREASES[level] for health and of
\* get_percent(stat, level) otherwise, "+" standing for zero too.
C15_RendersNumber ==
    (/\ buffCall.op = "buff_as_str"
     /\ buffCall.stat \in Range(STATS_REFERENCE)
     /\ ValidLevel(buffCall.stat, buffCall.arg))
        => /\ Returned(buffRet)
           /\ LET str == buffRet.val
                  number == IF buffCall.stat = "health" THEN HP_INCREASES[buffCall.arg + 1]
                            ELSE get_percent(buffCall.stat, buffCall.arg).val
                  last == IF buffCall.stat = "health" THEN Len(str) ELSE Len(str) - 1
              IN  /\ Len(str) >= 2
                  /\ CharAt(str, 1) = (IF number < 0 THEN "-" ELSE "+")
                  /\ buffCall.stat # "health" => CharAt(str, Len(str)) = "%"
                  /\ DigitsValue(SubSeq(str, 2, last)) = Abs(number)

\* buff_as_str("backfire", 10) has returned "-20%"
C15_Witness ==
    /\ buffCall = [op |-> "buff_as_str", stat |-> "backfire", arg |-> 10]
    /\ buffRet = Return("-20%")

\* a call of buff_stats that returned a mapping
BuffStatsReturned == buffCall.op = "buff_stats" /\ Returned(buffRet)

\* total_buff of every element of a list
TotalBuffOfEach(key, list) ==
    [j \in 1..Len(list) |-> total_buff(levels, key, list[j]).val]

\* C13: for a stat that is not a key of the levels, whatever the levels of the
\* other stats, total_buff returns the value and raises nothing; buff_stats
\* stores the value of such a key as it is, a scalar or a pair.
C13_PassThrough ==
    /\ (buffCall.op = "total_buff" /\ buffCall.stat \notin DOMAIN levels)
          => buffRet = Return(buffCall.arg)
    /\ (buffCall.op = "total_buff_wide" /\ buffCall.stat \notin DOMAIN levels)
          => buffRet = Return(buffCall.wide)
    /\ BuffStatsReturned =>
          \A i \in DOMAIN buffCall.stats :
              buffCall.stats[i].key \notin DOMAIN levels =>
                  \E o \in Range(buffRet.val) : o = buffCall.stats[i]

\* buff_stats({"weight": 55, "expRes": [15, 55]}) with expRes at level 3 has
\* returned weight as it was
C13_Witness ==
    /\ buffCall.op = "buff_stats"
    /\ buffCall.stats = <<[key |-> "weight", value |-> IntObj(55)],
                          [key |-> "expRes", value |-> ListObj(<<15, 55>>)]>>
    /\ levels = FromKeys(STATS_REFERENCE, 3)
    /\ buffRet = Return(<<[key |-> "weight", value |-> IntObj(55)],
                          [key |-> "expRes", value |-> ListObj(<<16, 61>>)]>>)

C17_KeysPreserved ==
    BuffStatsReturned =>
        /\ Len(buffRet.val) = Len(buffCall.stats)
        /\ \A i \in DOMAIN buffCall.stats :
              LET e == buffCall.stats[i]
                  o == buffRet.val[i]
              IN  /\ o.key = e.key
                  /\ o.value.t = e.value.t
                  /\ e.value.t = "list" => Len(o.value.list) = Len(e.value.list)

\* buff_stats({"weight": 55, "health": [15, 55]}, buff_health=True) at level 3
\* has returned two entries, weight first, the health a pair
C17_Witness ==
    /\ buffCall.op = "buff_stats"
    /\ buffCall.stats = <<[key |-> "weight", value |-> IntObj(55)],
                          [key |-> "health", value |-> ListObj(<<15, 55>>)]>>
    /\ buffCall.buff_health
    /\ levels = FromKeys(STATS_REFERENCE, 3)
    /\ buffRet = Return(<<[key |-> "weight", value |-> IntObj(55)],
                          [key |-> "health", value |-> ListObj(<<75, 115>>)]>>)

\* C19: every call of ArenaBuffs.maxed(), the first or a later one, whatever
\* buff operations ran in between, returns the instance bound to MAX_BUFFS,
\* no second instance is ever made, and in the instance health is at level 11
\* and every other stat of STATS_REFERENCE at level 10
C19_MaxedSingleton ==
    /\ Len(instances) <= 1
    /\ buffCall.op = "maxed" =>
          /\ Returned(buffRet)
          /\ buffRet.val = MAX_BUFFS
          /\ DOMAIN instances[buffRet.val] = Range(STATS_REFERENCE)
          /\ \A stat \in Range(STATS_REFERENCE) :
                instances[buffRet.val][stat] = IF stat = "health" THEN 11 ELSE 10

\* a later call of maxed() has returned
C19_Witness ==
    /\ buffCall = [op |-> "maxed", first |-> FALSE]
    /\ buffRet = Return(1)
    /\ MAX_BUFFS = 1

(***************************************************************************)
(* Manager: the calls of find and find_all, each with the Python           *)
(* expression that builds the predicate passed                             *)
(***************************************************************************)
MaxItems == 3

\* the Buttons of the demo: Button("yeah"), Button("nah", 1), Button("foh", 2)
ButtonFs == {0, 1, 2}
Buttons == [custom_id : {"yeah", "nah"}, f : ButtonFs]


\* the literals compared with
Literals == {IntObj(n) : n \in ButtonFs \cup {5}} \cup {StrObj(c) : c \in {"yeah", "nah"}}
Attributes == {"custom_id", "foo"}
Methods == {"find", "find_all"}

\* the operands of & and |: two comparisons, one that cannot be evaluated,
\* and the booleans
Operands ==
    {Selector_compare("le", Selector("foo"), IntObj(1)),
     Selector_compare("eq", Selector("custom_id"), StrObj("yeah")),
     Selector_compare("gt", Selector("foo"), StrObj("nah")),
     BoolObj(TRUE), BoolObj(FALSE)}

\* the arguments of an attribute method
ArgTuples == {<<>>, <<StrObj("n")>>, <<StrObj("ah")>>}
\* "missing" is an attribute of neither str nor int
MethodNames == {"startswith", "endswith", "bit_length", "real", "missing"}



\* the outcome of manager.find(pred) or manager.find_all(pred), where building
\* pred gave the outcome built
ManagerCall(method, built) ==
    IF ~Returned(built) THEN built
    ELSE IF method = "find" THEN Manager_find(items, built.val)
    ELSE Manager_find_all(items, built.val)


\* Button.attribute <func> literal
QueryCompare(method, func, attribute, literal) ==
    LET built == Return(Selector_compare(func, Selector(attribute), literal))
    IN  /\ queryCall = IdleCall
        /\ queryCall' = [op |-> method, pred |-> built,
                         src |-> [kind |-> "compare", func |-> func,
                                  attribute |-> attribute, literal |-> literal]]
        /\ queryRet' = ManagerCall(method, built)
        /\ UNCHANGED <<items, buffVars, proxyVars, matchVars, listenerVars>>

\* lo <= Button.foo <= hi
QueryChained(method, lo, hi) ==
    LET built == Return(ChainedLe(IntObj(lo), Selector("foo"), IntObj(hi)))
    IN  /\ queryCall = IdleCall
        /\ queryCall' = [op |-> method, pred |-> built,
                         src |-> [kind |-> "chained", lo |-> lo, hi |-> hi]]
        /\ queryRet' = ManagerCall(method, built)
        /\ UNCHANGED <<items, buffVars, proxyVars, matchVars, listenerVars>>

\* x & y
QueryAnd(method, x, y) ==
    /\ queryCall = IdleCall
    /\ queryCall' = [op |-> method, pred |-> AndExpr(x, y),
                     src |-> [kind |-> "and", x |-> x, y |-> y]]
    /\ queryRet' = ManagerCall(method, AndExpr(x, y))
    /\ UNCHANGED <<items, buffVars, proxyVars, matchVars, listenerVars>>

\* x | y
QueryOr(method, x, y) ==
    /\ queryCall = IdleCall
    /\ queryCall' = [op |-> method, pred |-> OrExpr(x, y),
                     src |-> [kind |-> "or", x |-> x, y |-> y]]
    /\ queryRet' = ManagerCall(method, OrExpr(x, y))
    /\ UNCHANGED <<items, buffVars, proxyVars, matchVars, listenerVars>>

\* Button.attribute.type.name(*args)
QueryMethod(method, attribute, name, args) ==
    LET built == MethodExpr(Selector(attribute), name, args)
    IN  /\ queryCall = IdleCall
        /\ queryCall' = [op |-> method, pred |-> built,
                         src |-> [kind |-> "method", attribute |-> attribute,
                                  name |-> name, args |-> args]]
        /\ queryRet' = ManagerCall(method, built)
        /\ UNCHANGED <<items, buffVars, proxyVars, matchVars, listenerVars>>

\* a raw boolean
QueryBool(method, b) ==
    /\ queryCall = IdleCall
    /\ queryCall' = [op |-> method, pred |-> Return(BoolObj(b)),
                     src |-> [kind |-> "bool", b |-> b]]
    /\ queryRet' = ManagerCall(method, Return(BoolObj(b)))
    /\ UNCHANGED <<items, buffVars, proxyVars, matchVars, listenerVars>>

QueryDone ==
    /\ queryCall # IdleCall
    /\ queryCall' = IdleCall
    /\ queryRet' = NoRet
    /\ UNCHANGED <<items, buffVars, proxyVars, matchVars, listenerVars>>

(***************************************************************************)
(* AttributeProxy: the operations on one proxy                             *)
(***************************************************************************)

\* proxy.name
ProxyGetAttr(name) ==
    LET done == AttributeProxy__getattr__(proxy, name)
    IN  /\ proxyCall' = [op |-> "__getattr__", name |-> name]
        /\ proxyRet' = done.ret
        /\ proxy' = done.self
        /\ UNCHANGED <<buffVars, queryVars, matchVars, listenerVars>>

\* proxy(*args), with no keywords: kwargs is the empty dict
ProxyCall(args) ==
    LET done == AttributeProxy__call__(proxy, args, <<>>)
    IN  /\ proxyCall' = [op |-> "__call__", args |-> args]
        /\ proxyRet' = done.ret
        /\ proxy' = done.self
        /\ UNCHANGED <<buffVars, queryVars, matchVars, listenerVars>>

\* proxy.get(value)
ProxyGet(value) ==
    /\ proxyCall' = [op |-> "get", value |-> value]
    /\ proxyRet' = AttributeProxy_get(proxy, value)
    /\ UNCHANGED <<proxy, buffVars, queryVars, matchVars, listenerVars>>

(***************************************************************************)
(* The resolver: a corpus, an index of abbreviations, and the calls of     *)
(* get_matching_items                                                      *)
(***************************************************************************)
MaxCorpus == 3
MaxLimit == 3

\* the index built from every name of the pool
PoolIndex ==
    abbreviate_names(
        <<"Hybrid Heat Cannon", "Hover Heli Copter", "HeronMark", "Heron", "HERON", "EMP">>)




\* the names under the key the query looks up, none when there is no such key
AbbrevSet(query) ==
    IF lower[query] \in DOMAIN index THEN index[lower[query]] ELSE {}

\* get_matching_items(corpus, name, index, limit=limit)
GetMatchingItems(name, limit) ==
    /\ matchCall = IdleCall
    /\ \E order \in \* the orders the set of names can be iterated in
                     LET set == AbbrevSet(name)
                     IN  {o \in [1..Cardinality(set) -> set] :
                             \A i, j \in 1..Cardinality(set) : o[i] = o[j] => i = j} :
          /\ matchCall' = [op |-> "get_matching_items", name |-> name,
                           limit |-> limit, order |-> order]
          /\ matchRet' = get_matching_items(corpus, name, index, limit, order)
    /\ UNCHANGED <<corpus, index, buffVars, queryVars, proxyVars, listenerVars>>

MatchDone ==
    /\ matchCall # IdleCall
    /\ matchCall' = IdleCall
    /\ matchRet' = NoRet
    /\ UNCHANGED <<corpus, index, buffVars, queryVars, proxyVars, listenerVars>>

(***************************************************************************)
(* abbreviate_names, turn by turn: corpus holds the names passed, index    *)
(* the dict abbrevs under construction, matchCall.i the names gone through *)
(***************************************************************************)
\* the names abbreviate_names is given: skipped ones, names sharing keys,
\* names with no uppercase letter and the empty name
IndexPool ==
    {"", "heron", "heat ray", "Heron", "EMP", "HeronMark", "HeronMine",
     "Hybrid Heat Cannon", "Hover Heli Copter"}

\* abbrevs = {}
AbbreviateNames ==
    /\ matchCall.op = "idle"
    /\ matchCall' = [op |-> "abbreviate_names", i |-> 0]
    /\ index' = <<>>
    /\ UNCHANGED <<corpus, matchRet, buffVars, queryVars, proxyVars, listenerVars>>

\* for name in names: one turn
AbbreviateTurn ==
    /\ matchCall.op = "abbreviate_names"
    /\ matchRet = NoRet
    /\ matchCall.i < Len(corpus)
    /\ index' = abbreviate_names_turn(index, corpus[matchCall.i + 1])
    /\ matchCall' = [matchCall EXCEPT !.i = @ + 1]
    /\ UNCHANGED <<corpus, matchRet, buffVars, queryVars, proxyVars, listenerVars>>

\* return abbrevs
AbbreviateReturn ==
    /\ matchCall.op = "abbreviate_names"
    /\ matchRet = NoRet
    /\ matchCall.i = Len(corpus)
    /\ matchRet' = Return(index)
    /\ UNCHANGED <<corpus, index, matchCall, buffVars, queryVars, proxyVars, listenerVars>>

(***************************************************************************)
(* Listener (src/ui/handlers.py).  The coroutines run on one event loop:   *)
(* a step runs from one await to the next, and other code runs only while  *)
(* listen() is suspended at an await, not yet called, or over.             *)
(***************************************************************************)
\* add_item(item)(func): the callback of the item is stored under its id
AddItem(id) ==
    /\ id \notin callbacks
    /\ callbacks' = callbacks \cup {id}
    /\ UNCHANGED <<run, timed_out, wait_task, listen, waiters,
                   buffVars, queryVars, proxyVars, matchVars>>

\* listen(): the test of while self.run, at the call and after every
\* dispatch; the loop left, listen() returns
ListenWhile ==
    /\ listen.pc \in {"new", "while"}
    /\ listen' = IF run THEN [pc |-> "wait_for"] ELSE [pc |-> "returned"]
    /\ UNCHANGED <<run, timed_out, wait_task, callbacks, waiters,
                   buffVars, queryVars, proxyVars, matchVars>>

\* client.wait_for returns an interaction, id its custom_id
Receive(id) ==
    /\ listen.pc = "wait_for"
    /\ listen' = [pc |-> "dispatch", id |-> id]
    /\ UNCHANGED <<run, timed_out, wait_task, callbacks, waiters,
                   buffVars, queryVars, proxyVars, matchVars>>

\* client.wait_for raises asyncio.TimeoutError
Timeout ==
    /\ listen.pc = "wait_for"
    /\ timed_out' = TRUE
    /\ wait_task' = TRUE
    /\ listen' = [pc |-> "returned"]
    /\ UNCHANGED <<run, callbacks, waiters, buffVars, queryVars, proxyVars, matchVars>>

\* await self.dispatch(id, result) is over: the callback of the id, if there
\* is one, has run
Dispatch ==
    /\ listen.pc = "dispatch"
    /\ listen' = [pc |-> "while"]
    /\ UNCHANGED <<run, timed_out, wait_task, callbacks, waiters,
                   buffVars, queryVars, proxyVars, matchVars>>

\* listener.run = False, by a callback while it is awaited or by other code
\* while listen() is not running
ClearRun ==
    /\ run
    /\ \/ listen.pc \in {"new", "wait_for", "returned"}
       \/ listen.pc = "dispatch" /\ listen.id \in callbacks
    /\ run' = FALSE
    /\ UNCHANGED <<timed_out, wait_task, callbacks, listen, waiters,
                   buffVars, queryVars, proxyVars, matchVars>>

\* wait() is called: it awaits self.wait_task.wait()
Wait(w) ==
    /\ waiters[w] = "idle"
    /\ waiters' = [waiters EXCEPT ![w] = "waiting"]
    /\ UNCHANGED <<run, timed_out, wait_task, callbacks, listen,
                   buffVars, queryVars, proxyVars, matchVars>>

\* the Event is set: wait_task.wait() gives True and wait() returns
\* True and self.timed_out
WaitReturn(w) ==
    /\ waiters[w] = "waiting"
    /\ wait_task
    /\ waiters' = [waiters EXCEPT ![w] = IF timed_out THEN "True" ELSE "False"]
    /\ UNCHANGED <<run, timed_out, wait_task, callbacks, listen,
                   buffVars, queryVars, proxyVars, matchVars>>

(***************************************************************************)
(* The specifications: one per component, the other components at rest     *)
(***************************************************************************)
\* a component at rest; for the buffs the class state is the one the import
\* of core.py leaves
AtRest(component) ==
    CASE component = "buffs" ->
            /\ levels = FromKeys(STATS_REFERENCE, 0) /\ buffCall = IdleCall /\ buffRet = NoRet
            /\ instances = <<MaxedLevels>> /\ maxedAttr = 1 /\ MAX_BUFFS = 1
      [] component = "query" -> items = <<>> /\ queryCall = IdleCall /\ queryRet = NoRet
      [] component = "proxy" ->
            /\ proxy = Selector_type(Selector("custom_id"))
            /\ proxyCall = [op |-> "new"]
            /\ proxyRet = NoRet
      [] component = "match" ->
            /\ corpus = <<>> /\ index = abbreviate_names(<<>>)
            /\ matchCall = IdleCall /\ matchRet = NoRet
      [] component = "listener" ->
            /\ run = TRUE /\ timed_out = FALSE /\ wait_task = FALSE /\ callbacks = {}
            /\ listen = [pc |-> "new"]
            /\ waiters = [w \in {"w1", "w2"} |-> "idle"]

InitBuffs ==
    /\ levels \in LevelDicts
    /\ buffCall = IdleCall /\ buffRet = NoRet
    /\ instances = <<MaxedLevels>> /\ maxedAttr = 1 /\ MAX_BUFFS = 1
    /\ AtRest("query")
    /\ AtRest("proxy")
    /\ AtRest("match")
    /\ AtRest("listener")

NextBuffs ==
    \/ \E stat \in StatNames, value \in BaseValues : TotalBuff(stat, value)
    \/ \E stat \in StatNames, value \in WideValues : TotalBuffWide(stat, value)
    \/ \E stat \in StatNames, level \in LevelValues : GetPercent(stat, level)
    \/ \E stat \in StatNames, level \in LevelValues : BuffAsStr(stat, level)
    \/ \E stats \in StatsBags, buff_health \in BOOLEAN : BuffStats(stats, buff_health)
    \/ \E stat \in StatNames, value \in {-55, 55} : TotalBuffDifference(stat, value)
    \/ BuffDone

SpecBuffs == InitBuffs /\ [][NextBuffs]_vars

\* the class is defined and the last statement of its module is yet to run;
\* the calls on an instance of its own (levels) wait for the import
InitMaxed ==
    /\ levels = FromKeys(STATS_REFERENCE, 0)
    /\ buffCall = IdleCall /\ buffRet = NoRet
    /\ instances = <<>> /\ maxedAttr = 0 /\ MAX_BUFFS = 0
    /\ AtRest("query")
    /\ AtRest("proxy")
    /\ AtRest("match")
    /\ AtRest("listener")

NextMaxed ==
    \/ ImportCore
    \/ Maxed
    \/ \E stat \in StatNames, enabled \in BOOLEAN, value \in BaseValues : Buff(stat, enabled, value)
    \/ MAX_BUFFS # 0 /\ \E stat \in StatNames, value \in BaseValues : TotalBuff(stat, value)
    \/ MAX_BUFFS # 0 /\ \E stat \in StatNames, level \in LevelValues : GetPercent(stat, level)
    \/ MAX_BUFFS # 0 /\ \E stat \in StatNames, level \in LevelValues : BuffAsStr(stat, level)
    \/ MAX_BUFFS # 0 /\ \E stats \in StatsBags, buff_health \in BOOLEAN : BuffStats(stats, buff_health)
    \/ BuffDone

SpecMaxed == InitMaxed /\ [][NextMaxed]_vars

InitQuery ==
    /\ items \in UNION {[1..n -> Buttons] : n \in 0..MaxItems}
    /\ queryCall = IdleCall /\ queryRet = NoRet
    /\ AtRest("buffs")
    /\ AtRest("proxy")
    /\ AtRest("match")
    /\ AtRest("listener")

NextQuery ==
    \/ \E m \in Methods, func \in {"eq", "gt", "ge", "lt", "le"}, a \in Attributes, lit \in Literals :
          QueryCompare(m, func, a, lit)
    \/ \E m \in Methods, lo \in ButtonFs, hi \in ButtonFs : QueryChained(m, lo, hi)
    \/ \E m \in Methods, x \in Operands, y \in Operands : QueryAnd(m, x, y)
    \/ \E m \in Methods, x \in Operands, y \in Operands : QueryOr(m, x, y)
    \/ \E m \in Methods, a \in Attributes, name \in MethodNames, args \in ArgTuples :
          QueryMethod(m, a, name, args)
    \/ \E m \in Methods, b \in BOOLEAN : QueryBool(m, b)
    \/ QueryDone

SpecQuery == InitQuery /\ [][NextQuery]_vars

InitProxy ==
    /\ proxy \in {Selector_type(Selector(a)) : a \in Attributes}
    /\ proxyCall = [op |-> "new"]
    /\ proxyRet = NoRet
    /\ AtRest("buffs")
    /\ AtRest("query")
    /\ AtRest("match")
    /\ AtRest("listener")

NextProxy ==
    \/ \E name \in MethodNames : ProxyGetAttr(name)
    \/ \E args \in ArgTuples : ProxyCall(args)
    \/ \E value \in Buttons : ProxyGet(value)

SpecProxy == InitProxy /\ [][NextProxy]_vars

\* the index is the one built from the corpus, or one built from other names
InitResolver ==
    /\ corpus \in UNION {{c \in [1..n -> NamePool] : \A i, j \in 1..n : c[i] = c[j] => i = j} :
                           n \in 0..MaxCorpus}
    /\ index \in {abbreviate_names(corpus), PoolIndex}
    /\ matchCall = IdleCall /\ matchRet = NoRet
    /\ AtRest("buffs")
    /\ AtRest("query")
    /\ AtRest("proxy")
    /\ AtRest("listener")

NextResolver ==
    \/ \E name \in Queries, limit \in 0..MaxLimit : GetMatchingItems(name, limit)
    \/ MatchDone

SpecResolver == InitResolver /\ [][NextResolver]_vars

\* the names are the keys of a mapping: up to MaxCorpus names, no name twice
InitIndex ==
    /\ corpus \in UNION {{c \in [1..n -> IndexPool] : \A i, j \in 1..n : c[i] = c[j] => i = j} :
                           n \in 0..MaxCorpus}
    /\ index = <<>>
    /\ matchCall = IdleCall /\ matchRet = NoRet
    /\ AtRest("buffs")
    /\ AtRest("query")
    /\ AtRest("proxy")
    /\ AtRest("listener")

NextIndex ==
    \/ AbbreviateNames
    \/ AbbreviateTurn
    \/ AbbreviateReturn

SpecIndex == InitIndex /\ [][NextIndex]_vars

\* Listener.__init__, with the default check
InitListener ==
    /\ run = TRUE /\ timed_out = FALSE /\ wait_task = FALSE /\ callbacks = {}
    /\ listen = [pc |-> "new"]
    /\ waiters = [w \in {"w1", "w2"} |-> "idle"]
    /\ AtRest("buffs")
    /\ AtRest("query")
    /\ AtRest("proxy")
    /\ AtRest("match")

NextListener ==
    \/ \E id \in {"yeah", "nah"} : AddItem(id)
    \/ ListenWhile
    \/ \E id \in {"yeah", "nah"} : Receive(id)
    \/ Timeout
    \/ Dispatch
    \/ ClearRun
    \/ \E w \in DOMAIN waiters : Wait(w)
    \/ \E w \in DOMAIN waiters : WaitReturn(w)

\* the event loop runs every coroutine that can go on; wait_for ends, with an
\* interaction or, the timeout being finite, with TimeoutError; a callback
\* awaited returns
SpecListener ==
    /\ InitListener
    /\ [][NextListener]_vars
    /\ WF_vars(ListenWhile)
    /\ WF_vars(Timeout \/ \E id \in {"yeah", "nah"} : Receive(id))
    /\ WF_vars(Dispatch)
    /\ \A w \in {"w1", "w2"} : WF_vars(WaitReturn(w))

(***************************************************************************)
(* Claims about Manager, Selector and Operator                             *)
(***************************************************************************)
QueryCalled(method) == queryCall.op = method

\* the predicate evaluates to true for the entity
EvaluatesTrue(pred, item) ==
    LET got == PredGet(pred, item) IN Returned(got) /\ Truthy(got.val)

\* the entities the predicate evaluates to true for, in the order of the Manager
Matching(its, pred) == SelectSeq(its, LAMBDA item : EvaluatesTrue(pred, item))

\* the entities with lo <= f <= hi, in the order of the Manager
InRange(its, lo, hi) == SelectSeq(its, LAMBDA item : lo <= item.f /\ item.f <= hi)

\* C4: for all bounds lo <= hi, find_all(lo <= Selector.f <= hi) returns exactly
\* the entities whose f satisfies lo <= f <= hi, in the Manager's order.
C4_ChainedRange ==
    (/\ QueryCalled("find_all")
     /\ queryCall.src.kind = "chained"
     /\ queryCall.src.lo <= queryCall.src.hi)
        => queryRet = Return(InRange(items, queryCall.src.lo, queryCall.src.hi))

\* a call of find or find_all with a built predicate that returned
BuiltReturned(method) ==
    /\ QueryCalled(method)
    /\ Returned(queryCall.pred)
    /\ queryCall.pred.val.t \in {"Operator", "AttributeProxy"}
    /\ Returned(queryRet)

\* C5: a find_all(p) that returns gives exactly the entities p evaluates to true
\* for, in the Manager's order; a find(p) that returns gives the first of them,
\* or none when there is none, so it is the first element of find_all(p).
C5_FindFirstOfFindAll ==
    /\ BuiltReturned("find_all") =>
          queryRet.val = Matching(items, queryCall.pred.val)
    /\ BuiltReturned("find") =>
          LET all == Matching(items, queryCall.pred.val)
          IN  /\ queryRet.val = IF all = <<>> THEN None ELSE Some(Head(all))
              /\ Manager_find_all(items, queryCall.pred.val) = Return(all)

\* find returned the second entity of three, the first not matching and the
\* third matching as well
C5_Witness ==
    /\ BuiltReturned("find")
    /\ Len(items) = 3
    /\ queryRet.val = Some(items[2])
    /\ ~EvaluatesTrue(queryCall.pred.val, items[1])
    /\ EvaluatesTrue(queryCall.pred.val, items[3])
    /\ items[3] # items[2]

\* C6: find and find_all given a raw boolean signal an error before evaluating
\* any entity, whatever the Manager holds, and never return a result.
C6_RawBooleanRejected ==
    (/\ queryCall.op \in Methods
     /\ Returned(queryCall.pred)
     /\ queryCall.pred.val.t = "bool")
        => queryRet = Raise("AssertionError")

\* find(True) on an empty Manager signalled the error
C6_Witness ==
    /\ QueryCalled("find")
    /\ queryCall.src = [kind |-> "bool", b |-> TRUE]
    /\ items = <<>>
    /\ queryRet = Raise("AssertionError")

(***************************************************************************)
(* Claims about AttributeProxy                                             *)
(***************************************************************************)
MethodBound(p) == p.method # None
ArgsBound(p) == p.args # None \/ p.kwargs # None
ProxyOp(name) == proxyCall'.op = name
ProxyFailed == ~Returned(proxyRet') /\ proxy' = proxy

\* C7: selecting a method when one is bound, calling before a method is bound,
\* calling again after the arguments are bound, and evaluating before both are
\* bound each signal an error; a failed operation leaves the bound method and the
\* bound arguments as they were, and each is bound at most once.
C7_ProxyBindsOnce ==
    [][/\ (ProxyOp("__getattr__") /\ MethodBound(proxy)) => ProxyFailed
       /\ (ProxyOp("__call__") /\ ~MethodBound(proxy)) => ProxyFailed
       /\ (ProxyOp("__call__") /\ ArgsBound(proxy)) => ProxyFailed
       /\ (ProxyOp("get") /\ ~(MethodBound(proxy) /\ ArgsBound(proxy))) => ProxyFailed
       /\ ~Returned(proxyRet') => proxy' = proxy
       /\ MethodBound(proxy) => proxy'.method = proxy.method
       /\ ArgsBound(proxy) => (proxy'.args = proxy.args /\ proxy'.kwargs = proxy.kwargs)
      ]_vars

\* a second call, with other arguments, failed on a proxy with both bound
C7_Witness ==
    /\ proxyCall.op = "__call__"
    /\ MethodBound(proxy)
    /\ ArgsBound(proxy)
    /\ proxy.args # Some(proxyCall.args)
    /\ ~Returned(proxyRet)

(***************************************************************************)
(* Claims about get_matching_items, checked under SpecResolver             *)
(***************************************************************************)
MatchCalled == matchCall.op = "get_matching_items"

\* the index is the one abbreviate_names builds from the names of the corpus
IndexOfCorpus == index = abbreviate_names(corpus)

\* C1: when the lowercased query is a key of the index whose set has more names
\* than limit, get_matching_items signals ValueError and returns no list,
\* whatever the corpus and the index.
C1_OverflowSignalsError ==
    (/\ MatchCalled
     /\ lower[matchCall.name] \in DOMAIN index
     /\ Cardinality(index[lower[matchCall.name]]) > matchCall.limit)
        => matchRet = Raise("ValueError")

\* "hhc" with limit 1 over Hybrid Heat Cannon and Hover Heli Copter signalled it
C1_Witness ==
    /\ MatchCalled
    /\ corpus = <<"Hybrid Heat Cannon", "Hover Heli Copter">>
    /\ IndexOfCorpus
    /\ matchCall.name = "hhc"
    /\ matchCall.limit = 1
    /\ matchRet = Raise("ValueError")

\* a call that returned, for a name of the corpus, the index built from the
\* corpus and a limit of at least 1
ExactNameCall ==
    /\ MatchCalled
    /\ matchCall.limit >= 1
    /\ matchCall.name \in Range(corpus)
    /\ Returned(matchRet)
    /\ IndexOfCorpus

\* C2: with the index built from the corpus and limit >= 1, the list returned
\* for a name of the corpus contains the entity of that name.
C2_ExactNameListed ==
    ExactNameCall => Item(matchCall.name) \in Range(matchRet.val)

\* the names that stand before the name in the corpus and differ from it by
\* case only: the similarity 1.0 is theirs too, and they are ranked first
SameLowerBefore(name) ==
    {i \in 1..Len(corpus) :
        /\ lower[corpus[i]] = lower[name]
        /\ \E j \in (i + 1)..Len(corpus) : corpus[j] = name}

\* C2, amended: the list contains the entity of the name exactly when the name
\* is one of the abbreviation matches of the query, or the abbreviation matches
\* and the names before it that differ by case only number less than limit.
C2_ExactNameListedWithinLimit ==
    ExactNameCall =>
        (Item(matchCall.name) \in Range(matchRet.val)
            <=> \/ matchCall.name \in AbbrevSet(matchCall.name)
                \/ Cardinality(AbbrevSet(matchCall.name))
                       + Cardinality(SameLowerBefore(matchCall.name)) < matchCall.limit)

\* "Heron" with limit 2 over HERON and Heron, neither abbreviated: both listed,
\* HERON first
C2_Witness ==
    /\ ExactNameCall
    /\ corpus = <<"HERON", "Heron">>
    /\ matchCall.name = "Heron"
    /\ matchCall.limit = 2
    /\ matchRet = Return(<<Item("HERON"), Item("Heron")>>)

\* the entity is one the query is similar to: the ratio is at least the cutoff
SimilarityMatch(item, query) ==
    \E n \in Range(corpus) :
        item = Item(n) /\ RatioGE(Scores[lower[n], lower[query]].ratio, cutoff)

\* C3: for a query whose abbreviation set has at most limit names (names of the
\* corpus), get_matching_items returns a list of at most limit entities: the
\* abbreviation matches first, then entities matched by similarity only.
C3_AbbreviationsFirst ==
    (/\ MatchCalled
     /\ Cardinality(AbbrevSet(matchCall.name)) <= matchCall.limit
     /\ AbbrevSet(matchCall.name) \subseteq Range(corpus))
        => /\ Returned(matchRet)
           /\ Len(matchRet.val) <= matchCall.limit
           /\ LET a == Cardinality(AbbrevSet(matchCall.name))
              IN  /\ a <= Len(matchRet.val)
                  /\ {matchRet.val[i] : i \in 1..a}
                         = {Item(n) : n \in AbbrevSet(matchCall.name)}
                  /\ \A i \in (a + 1)..Len(matchRet.val) :
                         SimilarityMatch(matchRet.val[i], matchCall.name)

\* "Heron" with limit 2 over Heron and HeronMark: HeronMark, the abbreviation
\* match, first, and then Heron, matched by similarity
C3_Witness ==
    /\ MatchCalled
    /\ corpus = <<"Heron", "HeronMark">>
    /\ IndexOfCorpus
    /\ matchCall.name = "Heron"
    /\ matchCall.limit = 2
    /\ matchRet = Return(<<Item("HeronMark"), Item("Heron")>>)

\* a name abbreviate_name skips: entirely uppercase, or one title-cased word
Skipped(name) == IsUpper(name) \/ (~HasSpace(name) /\ IsTitle(name))

\* C18: a name that is entirely uppercase, or has no space and is title-cased,
\* is in the set of no key of the index abbreviate_names builds from a corpus
\* that holds it: an index that has such a name under a key is neither the one
\* built from the whole pool nor, the name in the corpus, the one built from
\* the corpus.
C18_SkippedNamesAbsent ==
    \A n \in NamePool : Skipped(n) =>
        \A key \in DOMAIN index : n \in index[key] =>
            /\ index # PoolIndex
            /\ n \in Range(corpus) => ~IndexOfCorpus

\* the index built from EMP and HeronMark has the keys of HeronMark only
C18_Witness ==
    /\ corpus = <<"EMP", "HeronMark">>
    /\ IndexOfCorpus
    /\ DOMAIN index = {"hm", "heron", "mark"}
    /\ \A key \in DOMAIN index : index[key] = {"HeronMark"}

\* the similarity ratio of the i-th name of the corpus to the lowercased query
RatioOf(i) == Scores[lower[corpus[i]], lower[matchCall.name]].ratio

EvalOperand(z, e) == IF z.t = "bool" THEN Return(z) ELSE Operator_get(z, e)

\* a call of find or find_all with x & y or x | y, one of x and y an Operator
ComposedCall ==
    /\ queryCall # IdleCall
    /\ queryCall.src.kind \in {"and", "or"}
    /\ queryCall.src.x.t = "Operator" \/ queryCall.src.y.t = "Operator"

\* C23: x & y and x | y of two Operator nodes, or of an Operator node and a
\* boolean on either side, evaluate on an entity to the conjunction and the
\* disjunction of what x and y evaluate to: find_all returns the entities
\* where that holds and find the first of them, whenever x and y can be
\* evaluated on every entity; where one of them cannot, find_all signals it
C23_ComposeLikeBooleans ==
    ComposedCall =>
        LET x == queryCall.src.x
            y == queryCall.src.y
            defined == \A i \in 1..Len(items) :
                          Returned(EvalOperand(x, items[i])) /\ Returned(EvalOperand(y, items[i]))
            holds(e) == IF queryCall.src.kind = "and"
                        THEN EvalOperand(x, e).val.bool /\ EvalOperand(y, e).val.bool
                        ELSE EvalOperand(x, e).val.bool \/ EvalOperand(y, e).val.bool
            want == SelectSeq(items, holds)
        IN  IF defined
            THEN queryRet = IF queryCall.op = "find_all" THEN Return(want)
                            ELSE Return(IF want = <<>> THEN None ELSE Some(Head(want)))
            ELSE queryCall.op = "find_all" => ~Returned(queryRet)

\* True & (Button.foo <= 1) over f = 2, 0, 1: the entities with f <= 1
C23_Witness ==
    /\ ComposedCall
    /\ queryCall.op = "find_all"
    /\ queryCall.src = [kind |-> "and", x |-> BoolObj(TRUE),
                        y |-> Selector_compare("le", Selector("foo"), IntObj(1))]
    /\ items = <<[custom_id |-> "yeah", f |-> 2], [custom_id |-> "nah", f |-> 0],
                 [custom_id |-> "yeah", f |-> 1]>>
    /\ queryRet = Return(<<[custom_id |-> "nah", f |-> 0], [custom_id |-> "yeah", f |-> 1]>>)

(***************************************************************************)
(* abbreviate_names: what the index holds                                  *)
(***************************************************************************)
\* the names abbreviate_names has gone through
Processed ==
    IF matchCall.op = "abbreviate_names"
    THEN {corpus[j] : j \in 1..matchCall.i}
    ELSE {}

\* the keys a name of the pool produces, as primary abbreviation or as alias
ProducedKeys ==
    [name \in IndexPool |->
        LET abb == abbreviate_name(name)
        IN  IF abb = None THEN {} ELSE Abbrev(name, abb[1])]

\* C21: at every turn of abbreviate_names and when it returns, the set of a
\* key of the index is exactly the set of the names gone through that produce
\* the key, and every key produced is a key of the index: no name registered
\* earlier is lost and no name is listed under a key it does not produce
C21_KeySetsAccumulate ==
    matchCall.op = "abbreviate_names" =>
        /\ \A key \in DOMAIN index :
              index[key] = {n \in Processed : key \in ProducedKeys[n]}
        /\ \A n \in Processed : ProducedKeys[n] \subseteq DOMAIN index

\* HeronMark and HeronMine share hm and heron; both are listed under each
C21_Witness ==
    /\ corpus = <<"HeronMark", "EMP", "HeronMine">>
    /\ matchRet = Return(index)
    /\ index["hm"] = {"HeronMark", "HeronMine"}
    /\ index["heron"] = {"HeronMark", "HeronMine"}
    /\ index["mine"] = {"HeronMine"}

\* the keys a name of the pool is to be registered under: the uppercase letters
\* lowercased; the name without its spaces, lowercased, if it has a space;
\* else, for a name that is not title-case, the lowercased pieces between one
\* cut and the next, a cut being the start, the end and before every
\* uppercase letter
ExpectedKeys ==
    [name \in IndexPool |->
    LET RECURSIVE Uppers(_)
        Uppers(i) ==
            IF i > Len(name) THEN ""
            ELSE (IF CharIsUpper(CharAt(name, i)) THEN CharAt(name, i) ELSE "") \o Uppers(i + 1)
        RECURSIVE Unspaced(_)
        Unspaced(i) ==
            IF i > Len(name) THEN ""
            ELSE (IF CharAt(name, i) = " " THEN "" ELSE CharAt(name, i)) \o Unspaced(i + 1)
        cut(p) == p = 1 \/ p = Len(name) + 1 \/ CharIsUpper(CharAt(name, p))
        pieces == {SubSeq(name, p, q - 1) :
                      <<p, q>> \in {pq \in (1..Len(name)) \X (2..(Len(name) + 1)) :
                                      /\ pq[1] < pq[2]
                                      /\ cut(pq[1]) /\ cut(pq[2])
                                      /\ \A r \in (pq[1] + 1)..(pq[2] - 1) : ~cut(r)}}
    IN  {Lower(Uppers(1))}
            \cup (IF HasSpace(name) THEN {Lower(Unspaced(1))}
                  ELSE IF ~IsTitle(name) THEN {Lower(piece) : piece \in pieces}
                  ELSE {})]

\* C22: the keys under which a name gone through and not skipped is listed are
\* exactly its primary abbreviation, the name without spaces if it has a
\* space, and else, if it is not title-case, its fragments
C22_KeysOfName ==
    \A n \in Processed : ~Skipped(n) =>
        {key \in DOMAIN index : n \in index[key]} = ExpectedKeys[n]

\* HeronMark gives hm, heron and mark; Hybrid Heat Cannon gives hhc and
\* hybridheatcannon
C22_Witness ==
    /\ corpus = <<"HeronMark", "Hybrid Heat Cannon">>
    /\ matchRet = Return(index)
    /\ {key \in DOMAIN index : "HeronMark" \in index[key]} = {"hm", "heron", "mark"}
    /\ {key \in DOMAIN index : "Hybrid Heat Cannon" \in index[key]}
           = {"hhc", "hybridheatcannon"}

\* C26: every key of the index abbreviate_names returns is a non-empty string
\* with no uppercase letter
C26_KeysNonEmptyLower ==
    (matchCall.op = "abbreviate_names" /\ Returned(matchRet)) =>
        \A key \in DOMAIN matchRet.val :
            /\ key # ""
            /\ \A i \in 1..Len(key) : ~CharIsUpper(CharAt(key, i))

\* C25: no entity is twice in the list get_matching_items returns, the index
\* being the one built from the corpus
C25_NoEntityTwice ==
    (MatchCalled /\ Returned(matchRet)) =>
        \A i, j \in 1..Len(matchRet.val) :
            (i < j /\ matchRet.val[i] = matchRet.val[j]) => ~IndexOfCorpus

(***************************************************************************)
(* Listener: wait() against listen()                                       *)
(***************************************************************************)
\* C27: a wait() has returned only once listen() is over, its value is True
\* exactly when the loop ended by timeout, and a wait() pending when listen()
\* is over, whether by timeout or because run was cleared, returns in the end
C27_WaitEndsWithListen ==
    /\ [](\A w \in DOMAIN waiters :
            waiters[w] \in {"True", "False"} =>
                /\ listen.pc = "returned"
                /\ waiters[w] = "True" <=> timed_out)
    /\ \A w \in {"w1", "w2"} :
          (listen.pc = "returned" /\ waiters[w] = "waiting")
              ~> (waiters[w] \in {"True", "False"})

====
